---- MODULE Spec2Model ----
(***************************************************************************)
(* Model of the Obsidian Edit History plugin (main.ts): the per-note edit  *)
(* history archive (.edtz), the vault "modify" handler that purges, folds  *)
(* and appends, and the reconstruction walk of the history modal.          *)
(*                                                                         *)
(* Texts are sequences of lines; a line is a small natural number standing *)
(* for a line of text of LineLen(l) characters.  An entry name is the      *)
(* sequence of its characters: base-36 digits 0..35 and the marker Dollar. *)
(* A patch text is the sequence <<start, nDel>> \o del \o ins.             *)
(***************************************************************************)
EXTENDS Integers, Sequences, FiniteSets, TLC

(* ------------------------------ bounds --------------------------------- *)
\* the wall clock advances in steps of 500 ms up to MaxTicks * 500 ms
MaxTicks == 4
\* the save command is invoked at most MaxForced times
MaxForced == 1

\* invocations of the "modify" handler in flight at the same time
MaxInFlight == 2

\* invocations of select.onChange in flight at the same time
MaxSelects == 2

\* a text is a sequence of distinct lines
Lines == {1, 2}
Texts == {t \in UNION {[1..n -> Lines] : n \in 0..Cardinality(Lines)} :
            \A i, j \in DOMAIN t : t[i] = t[j] => i = j}
\* the clock ticks every half second
Times == {t * 500 : t \in 0..MaxTicks}

\* values the user can type in the settings tab (seconds, count, seconds, KB)
MinSecondsChoices == {0, 1}
MaxEditsChoices == {0, 1, 2}
MaxEditAgeChoices == {0, 1}
MaxSizeKBChoices == {0, 1}
\* the settings tried: no retention limit, one of them, or all three
SettingsChoices ==
    {s \in [minSecondsBetweenEdits : MinSecondsChoices,
            maxEdits : MaxEditsChoices,
            maxEditAge : MaxEditAgeChoices,
            maxHistoryFileSizeKB : MaxSizeKBChoices] :
        LET set == (IF s.maxEdits # 0 THEN 1 ELSE 0) + (IF s.maxEditAge # 0 THEN 1 ELSE 0)
                   + (IF s.maxHistoryFileSizeKB # 0 THEN 1 ELSE 0)
        IN  set <= 1 \/ (set = 3 /\ s.maxEdits # 1)}

(* ----------------------------- constants ------------------------------- *)
Infinity == 1000000000
Dollar == 36
Radix == 36

VARIABLES
    now,        \* wall clock, ms
    fileData,   \* the note's current content
    fileMtime,  \* the note's file.stat.mtime, ms
    zipFile,    \* "null" | "file": what the vault has at the archive path
    zip,        \* the archive's entries, in the container's order
    zipMtime,   \* the archive's zipFile.stat.mtime, ms
    settings,   \* the settings as typed
    outcome,    \* how the last "modify" handler invocation ended
    lastForce,  \* the force flag of the last invocation
    saved,      \* history: epoch second -> content of the edit stored for it,
                \* less the seconds the purge loop removed; while monotone holds
    monotone,   \* history: every stored edit was newer than all stored before
    forced,     \* number of invocations of the save command so far
    everStored, \* history: epoch second -> content of every edit stored, purged
                \* or not; while monotone holds
    vault,      \* the paths of the files of the vault, notes and archives
    listSettings, \* the extension whitelist and substring blacklist as typed
    events,     \* history: the notifications of the last step, each with the
                \* answer of keepEditHistoryForFile for its file
    handlers,   \* the invocations of the "modify" handler in flight: where each
                \* is suspended and its local variables
    zipValid,   \* whether the bytes of the archive file are a zip container
    noteDeleted, \* whether the note has been deleted from the vault
    tab,        \* the numeric settings as typed in the settings tab (strings)
                \* and the limits parsed from them
    purge,      \* a run of the purge loop by itself: the archive, size and time
                \* it is given and the entries it keeps
    codec,      \* the entry codec and sortEdits by themselves: their last
                \* arguments and results
    modal       \* the EditHistoryModal: where onOpen is, what it loaded, what is
                \* shown; atOpen is history: the version of each entry when loaded

\* the note of the "modify" handler and its archive
noteVars == <<now, fileData, fileMtime, zipFile, zip, zipMtime, settings,
              outcome, lastForce, saved, monotone, forced, everStored>>

\* the files of the vault and the tracking settings
vaultVars == <<vault, listSettings, events, tab, purge, codec>>

\* the invocations of the "modify" handler suspended at an await
asyncVars == <<handlers, zipValid, noteDeleted>>

vars == <<noteVars, vaultVars, asyncVars, modal>>

\* no invocation in flight: every slot is idle
Handlers == 1..MaxInFlight

IdleHandler ==
    [pc |-> "idle", zipFile |-> "null", fileData |-> <<>>, mtime |-> 0,
     newZipData |-> <<>>]

NoHandlers == [h \in Handlers |-> IdleHandler]

\* the codec and sortEdits not run by themselves
NoCodec == [op |-> "none", mtime |-> 0, isDiff |-> FALSE, editFilename |-> <<>>,
            epoch |-> 0, decodedIsDiff |-> FALSE, filenames |-> <<>>, sorted |-> <<>>]

\* the purge loop not run by itself
NoPurge == [files |-> <<>>, zipFileSize |-> 0, todayUTC |-> 0, done |-> FALSE,
            filepaths |-> <<>>]

\* no invocation of select.onChange in flight
Selects == 1..MaxSelects

IdleSelect ==
    [pc |-> "idle", selectedEdit |-> <<>>, rest |-> <<>>, data |-> <<>>,
     currentData |-> <<>>, found |-> FALSE]

NoSelects == [h \in Selects |-> IdleSelect]

\* the annotation "" of a line of the timeline
NoAnnot == -1

\* renderDiffsTimeline not running: its locals
NoTimeline ==
    [pc |-> "idle", rest |-> <<>>, lines |-> <<>>, annots |-> <<>>,
     lineToRefLine |-> <<>>, annotate |-> FALSE, remainingAnnots |-> 0,
     data |-> <<>>, newerData |-> <<>>, prevFileDateStr |-> NoAnnot]

\* no modal open
NoModal ==
    [pc |-> "closed", latestData |-> <<>>, zip |-> <<>>, filepaths |-> <<>>,
     selectedEdit |-> <<>>, currentVersionData |-> <<>>, data |-> <<>>,
     atOpen |-> <<>>, selects |-> NoSelects, timeline |-> NoTimeline]

(* --------------------------- parseSettings ----------------------------- *)
Digits == <<"0", "1", "2", "3", "4", "5", "6", "7", "8", "9">>

IsDigit(c) == \E i \in DOMAIN Digits : Digits[i] = c

DigitValue(c) == (CHOOSE i \in DOMAIN Digits : Digits[i] = c) - 1

\* the value of the longest prefix of digits of s, and whether there is one
RECURSIVE ParseDigits(_, _, _)
ParseDigits(s, acc, any) ==
    IF s = <<>> \/ ~IsDigit(Head(s)) THEN [nan |-> ~any, value |-> acc]
    ELSE ParseDigits(Tail(s), acc * 10 + DigitValue(Head(s)), TRUE)

\* skips the leading white space of s
RECURSIVE trimStart(_)
trimStart(s) == IF s # <<>> /\ Head(s) = " " THEN trimStart(Tail(s)) ELSE s

\* parseInt of JavaScript, radix 10: leading white space, a sign, the digits
\* up to the first character that is none; NaN when there is no digit
parseInt(s) ==
    LET t == trimStart(s)
        negative == t # <<>> /\ Head(t) = "-"
        signed == t # <<>> /\ Head(t) \in {"-", "+"}
        r == ParseDigits(IF signed THEN Tail(t) ELSE t, 0, FALSE)
    IN  [nan |-> r.nan, value |-> IF negative THEN 0 - r.value ELSE r.value]

\* parseInt(value) * k || Infinity: NaN and 0 are falsy
ParseOrInfinity(value, k) ==
    LET n == parseInt(value)
    IN  IF n.nan \/ n.value * k = 0 THEN Infinity ELSE n.value * k

\* parseSettings with a value of 0 kept as a limit of zero
parseSettingsZeroKept(typed) ==
    [minMsBetweenEdits |-> ParseOrInfinity(typed.minSecondsBetweenEdits, 1000),
     maxEdits |-> IF parseInt(typed.maxEdits).nan THEN Infinity
                  ELSE parseInt(typed.maxEdits).value,
     maxEditAgeMs |-> ParseOrInfinity(typed.maxEditAge, 1000),
     maxEditHistoryFileSize |-> ParseOrInfinity(typed.maxHistoryFileSizeKB, 1024)]

\* the four limits parsed from the settings as typed
parseSettings(typed) ==
    [minMsBetweenEdits |-> ParseOrInfinity(typed.minSecondsBetweenEdits, 1000),
     maxEdits |-> ParseOrInfinity(typed.maxEdits, 1),
     maxEditAgeMs |-> ParseOrInfinity(typed.maxEditAge, 1000),
     maxEditHistoryFileSize |-> ParseOrInfinity(typed.maxHistoryFileSizeKB, 1024)]

DEFAULT_SETTINGS ==
    [minSecondsBetweenEdits |-> <<"6", "0">>,
     maxEditAge |-> <<"0">>,
     maxEdits |-> <<"0">>,
     maxHistoryFileSizeKB |-> <<"0">>]

\* loadSettings with no data saved: the defaults, parsed
DefaultTab == [typed |-> DEFAULT_SETTINGS, parsed |-> parseSettings(DEFAULT_SETTINGS)]

(* ------------------------------ helpers -------------------------------- *)
Last(s) == s[Len(s)]

Front(s) == SubSeq(s, 1, Len(s) - 1)

\* number of characters of a line of text
LineLen(l) == IF l = 1 THEN 400 ELSE 20

RECURSIVE SumLen(_, _)
SumLen(s, extra) ==
    IF s = <<>> THEN 0 ELSE LineLen(Head(s)) + extra + SumLen(Tail(s), extra)

\* string.length of a text
TextLen(text) == SumLen(text, 0)

(* --------------------------- entry codec ------------------------------- *)
RECURSIVE ToString36(_)
ToString36(n) ==
    IF n < Radix THEN <<n>> ELSE Append(ToString36(n \div Radix), n % Radix)

RECURSIVE ParseInt36From(_, _)
ParseInt36From(s, acc) ==
    IF s = <<>> \/ Head(s) >= Radix THEN acc
    ELSE ParseInt36From(Tail(s), acc * Radix + Head(s))

\* parseInt(s, 36): the leading digits, anything after them ignored
ParseInt36(s) == ParseInt36From(s, 0)

getEditEpoch(editFilename) == ParseInt36(editFilename) * 1000

getEditIsDiff(editFilename) == Last(editFilename) # Dollar

\* buildEditFilename without Math.floor(mtime / 1000)
buildEditFilenameOfMs(mtime, isDiff) ==
    ToString36(mtime) \o (IF isDiff THEN <<>> ELSE <<Dollar>>)

buildEditFilename(mtime, isDiff) ==
    ToString36(mtime \div 1000) \o (IF isDiff THEN <<>> ELSE <<Dollar>>)

\* insert a name into a list sorted most recent first, after its equals
RECURSIVE InsertEdit(_, _)
InsertEdit(sorted, name) ==
    IF sorted = <<>> THEN <<name>>
    ELSE IF getEditEpoch(name) > getEditEpoch(Head(sorted))
         THEN <<name>> \o sorted
         ELSE <<Head(sorted)>> \o InsertEdit(Tail(sorted), name)

\* the order of two names as strings: '$' comes before the digits, the
\* digits before the letters, a prefix before the longer string
RECURSIVE StringLess(_, _)
StringLess(a, b) ==
    IF b = <<>> THEN FALSE
    ELSE IF a = <<>> THEN TRUE
    ELSE LET CharCode(c) == IF c = Dollar THEN 0 - 1 ELSE c
         IN  IF Head(a) = Head(b) THEN StringLess(Tail(a), Tail(b))
             ELSE CharCode(Head(a)) < CharCode(Head(b))

RECURSIVE InsertEditAsString(_, _)
InsertEditAsString(sorted, name) ==
    IF sorted = <<>> THEN <<name>>
    ELSE IF StringLess(Head(sorted), name)
         THEN <<name>> \o sorted
         ELSE <<Head(sorted)>> \o InsertEditAsString(Tail(sorted), name)

\* sortEdits with the names compared as strings
RECURSIVE sortEditsAsStrings(_)
sortEditsAsStrings(filenames) ==
    IF filenames = <<>> THEN <<>>
    ELSE InsertEditAsString(sortEditsAsStrings(Front(filenames)), Last(filenames))

\* stable sort, most recent first
RECURSIVE sortEdits(_)
sortEdits(filenames) ==
    IF filenames = <<>> THEN <<>>
    ELSE InsertEdit(sortEdits(Front(filenames)), Last(filenames))

(* ------------------------------ settings ------------------------------- *)
\* parseInt(s) * k || Infinity
ParseLimit(value, k) == IF value * k = 0 THEN Infinity ELSE value * k

minMsBetweenEdits == ParseLimit(settings.minSecondsBetweenEdits, 1000)

maxEdits == ParseLimit(settings.maxEdits, 1)

maxEditAgeMs == ParseLimit(settings.maxEditAge, 1000)

maxEditHistoryFileSize == ParseLimit(settings.maxHistoryFileSizeKB, 1024)

(* --------------------------- diff-match-patch -------------------------- *)
RECURSIVE CommonPrefix(_, _)
CommonPrefix(a, b) ==
    IF a = <<>> \/ b = <<>> \/ Head(a) # Head(b) THEN 0
    ELSE 1 + CommonPrefix(Tail(a), Tail(b))

RECURSIVE CommonSuffix(_, _)
CommonSuffix(a, b) ==
    IF a = <<>> \/ b = <<>> \/ Last(a) # Last(b) THEN 0
    ELSE 1 + CommonSuffix(Front(a), Front(b))

\* patch_make(a, b): the patches that turn a into b; none when a = b
patch_make(a, b) ==
    IF a = b THEN <<>>
    ELSE LET p == CommonPrefix(a, b)
             s == CommonSuffix(SubSeq(a, p + 1, Len(a)), SubSeq(b, p + 1, Len(b)))
         IN  <<[start |-> p,
                del |-> SubSeq(a, p + 1, Len(a) - s),
                ins |-> SubSeq(b, p + 1, Len(b) - s)]>>

patch_toText(patches) ==
    IF patches = <<>> THEN <<>>
    ELSE LET p == patches[1]
         IN  <<p.start, Len(p.del)>> \o p.del \o p.ins

patch_fromText(text) ==
    IF Len(text) < 2 THEN <<>>
    ELSE <<[start |-> text[1],
            del |-> SubSeq(text, 3, 2 + text[2]),
            ins |-> SubSeq(text, 3 + text[2], Len(text))]>>

\* patch_apply(patches, text)[0]: a patch whose deleted text is not found
\* where it expects it is not applied and leaves the text as it is
patch_apply(patches, text) ==
    IF patches = <<>> THEN text
    ELSE LET p == patches[1]
             e == p.start + Len(p.del)
         IN  IF e <= Len(text) /\ SubSeq(text, p.start + 1, e) = p.del
             THEN SubSeq(text, 1, p.start) \o p.ins \o SubSeq(text, e + 1, Len(text))
             ELSE text

\* string.length of a patch text: the "@@ -a,b +c,d @@" line (16 characters),
\* then each deleted or inserted line with its sign and its line break
PatchTextLen(text) ==
    IF Len(text) < 2 THEN 0
    ELSE 16 + SumLen(SubSeq(text, 3, Len(text)), 2)

(* ------------------------------- jszip --------------------------------- *)
\* the names of the entries, in the container's order (zip.forEach)
ZipNames(files) == [i \in 1..Len(files) |-> files[i].name]

ZipHas(files, name) == \E i \in 1..Len(files) : files[i].name = name

\* zip.file(name).async("string")
ZipRead(files, name) ==
    LET i == CHOOSE i \in 1..Len(files) : files[i].name = name IN files[i].data

\* zip.remove(name)
ZipRemove(files, name) == SelectSeq(files, LAMBDA e : e.name # name)

\* zip.file(name, data): replaces the entry of that name or adds one
ZipWrite(files, name, data) ==
    IF ZipHas(files, name)
    THEN [i \in 1..Len(files) |->
            IF files[i].name = name THEN [name |-> name, data |-> data] ELSE files[i]]
    ELSE Append(files, [name |-> name, data |-> data])

EntryLen(e) == IF getEditIsDiff(e.name) THEN PatchTextLen(e.data) ELSE TextLen(e.data)

getEditCompressedSize(files, filepath) ==
    LET i == CHOOSE i \in 1..Len(files) : files[i].name = filepath
    IN  EntryLen(files[i])

\* a zip container spends about 100 bytes per entry besides its data
RECURSIVE ZipEntriesLen(_)
ZipEntriesLen(files) ==
    IF files = <<>> THEN 0
    ELSE EntryLen(Head(files)) + 100 + ZipEntriesLen(Tail(files))

\* zipData.byteLength: the entries and the 22 bytes of the end record
ByteLength(files) == 22 + ZipEntriesLen(files)

(* ----------------------- vault.on("modify") ----------------------------- *)
\* PurgeLoop with the count checked with > instead of >=
RECURSIVE PurgeLoopCountGT(_, _, _, _)
PurgeLoopCountGT(filepaths, files, zipFileSize, todayUTC) ==
    IF filepaths = <<>> THEN [filepaths |-> filepaths, files |-> files]
    ELSE LET filepath == Last(filepaths)
             overCount == Len(filepaths) > maxEdits
             overAge == todayUTC - getEditEpoch(filepath) > maxEditAgeMs
             overSize == zipFileSize > maxEditHistoryFileSize
             newSize == IF overSize
                        THEN zipFileSize - getEditCompressedSize(files, filepath)
                        ELSE zipFileSize
         IN  IF ~(overCount \/ overAge \/ overSize)
             THEN [filepaths |-> filepaths, files |-> files]
             ELSE PurgeLoopCountGT(Front(filepaths), ZipRemove(files, filepath),
                                   newSize, todayUTC)

\* PurgeLoop with the age taken from the most recent entry, not the oldest
RECURSIVE PurgeLoopAgeOfFirst(_, _, _, _)
PurgeLoopAgeOfFirst(filepaths, files, zipFileSize, todayUTC) ==
    IF filepaths = <<>> THEN [filepaths |-> filepaths, files |-> files]
    ELSE LET filepath == Last(filepaths)
             overCount == Len(filepaths) >= maxEdits
             overAge == todayUTC - getEditEpoch(filepaths[1]) > maxEditAgeMs
             overSize == zipFileSize > maxEditHistoryFileSize
             newSize == IF overSize
                        THEN zipFileSize - getEditCompressedSize(files, filepath)
                        ELSE zipFileSize
         IN  IF ~(overCount \/ overAge \/ overSize)
             THEN [filepaths |-> filepaths, files |-> files]
             ELSE PurgeLoopAgeOfFirst(Front(filepaths), ZipRemove(files, filepath),
                                      newSize, todayUTC)

\* PurgeLoop with the entries purged from the start of the list, most recent
\* first
RECURSIVE PurgeLoopNewestFirst(_, _, _, _)
PurgeLoopNewestFirst(filepaths, files, zipFileSize, todayUTC) ==
    IF filepaths = <<>> THEN [filepaths |-> filepaths, files |-> files]
    ELSE LET filepath == Head(filepaths)
             overCount == Len(filepaths) >= maxEdits
             overAge == todayUTC - getEditEpoch(filepath) > maxEditAgeMs
             overSize == zipFileSize > maxEditHistoryFileSize
             newSize == IF overSize
                        THEN zipFileSize - getEditCompressedSize(files, filepath)
                        ELSE zipFileSize
         IN  IF ~(overCount \/ overAge \/ overSize)
             THEN [filepaths |-> filepaths, files |-> files]
             ELSE PurgeLoopNewestFirst(Tail(filepaths), ZipRemove(files, filepath),
                                       newSize, todayUTC)

\* PurgeLoop with the entry before the oldest purged while there are two
RECURSIVE PurgeLoopSecondOldest(_, _, _, _)
PurgeLoopSecondOldest(filepaths, files, zipFileSize, todayUTC) ==
    IF filepaths = <<>> THEN [filepaths |-> filepaths, files |-> files]
    ELSE LET n == Len(filepaths)
             filepath == IF n >= 2 THEN filepaths[n - 1] ELSE filepaths[n]
             rest == IF n >= 2 THEN SubSeq(filepaths, 1, n - 2) \o <<filepaths[n]>>
                     ELSE <<>>
             overCount == Len(filepaths) >= maxEdits
             overAge == todayUTC - getEditEpoch(filepath) > maxEditAgeMs
             overSize == zipFileSize > maxEditHistoryFileSize
             newSize == IF overSize
                        THEN zipFileSize - getEditCompressedSize(files, filepath)
                        ELSE zipFileSize
         IN  IF ~(overCount \/ overAge \/ overSize)
             THEN [filepaths |-> filepaths, files |-> files]
             ELSE PurgeLoopSecondOldest(rest, ZipRemove(files, filepath),
                                        newSize, todayUTC)

\* PurgeLoop with an age or a size equal to its limit purged too
RECURSIVE PurgeLoopTiesPurged(_, _, _, _)
PurgeLoopTiesPurged(filepaths, files, zipFileSize, todayUTC) ==
    IF filepaths = <<>> THEN [filepaths |-> filepaths, files |-> files]
    ELSE LET filepath == Last(filepaths)
             overCount == Len(filepaths) >= maxEdits
             overAge == todayUTC - getEditEpoch(filepath) >= maxEditAgeMs
             overSize == zipFileSize >= maxEditHistoryFileSize
             newSize == IF overSize
                        THEN zipFileSize - getEditCompressedSize(files, filepath)
                        ELSE zipFileSize
         IN  IF ~(overCount \/ overAge \/ overSize)
             THEN [filepaths |-> filepaths, files |-> files]
             ELSE PurgeLoopTiesPurged(Front(filepaths), ZipRemove(files, filepath),
                                      newSize, todayUTC)

\* the purge loop: entries are purged oldest first, from the end of the list
RECURSIVE PurgeLoop(_, _, _, _)
PurgeLoop(filepaths, files, zipFileSize, todayUTC) ==
    IF filepaths = <<>> THEN [filepaths |-> filepaths, files |-> files]
    ELSE LET filepath == Last(filepaths)
             overCount == Len(filepaths) >= maxEdits
             overAge == todayUTC - getEditEpoch(filepath) > maxEditAgeMs
             overSize == zipFileSize > maxEditHistoryFileSize
             newSize == IF overSize
                        THEN zipFileSize - getEditCompressedSize(files, filepath)
                        ELSE zipFileSize
         IN  IF ~(overCount \/ overAge \/ overSize)
             THEN [filepaths |-> filepaths, files |-> files]
             ELSE PurgeLoop(Front(filepaths), ZipRemove(files, filepath),
                            newSize, todayUTC)

\* FoldMostRecent with the arguments of patch_make exchanged
FoldMostRecentSwapped(filepaths, files, fileData_, newFilename) ==
    LET mostRecentFilename == filepaths[1]
        prevFileData == ZipRead(files, mostRecentFilename)
        diffs == patch_make(prevFileData, fileData_)
        patch == patch_toText(diffs)
    IN  IF getEditEpoch(mostRecentFilename) = getEditEpoch(newFilename)
        THEN [return |-> "SkippedCollision", files |-> files]
        ELSE IF diffs = <<>>
        THEN [return |-> "SkippedNoChange", files |-> files]
        ELSE IF PatchTextLen(patch) < TextLen(prevFileData)
        THEN [return |-> "",
              files |-> ZipWrite(ZipRemove(files, mostRecentFilename),
                                 buildEditFilename(getEditEpoch(mostRecentFilename), TRUE),
                                 patch)]
        ELSE [return |-> "", files |-> files]

\* FoldMostRecent without the return on an empty list of diffs
FoldMostRecentNoChangeStored(filepaths, files, fileData_, newFilename) ==
    LET mostRecentFilename == filepaths[1]
        prevFileData == ZipRead(files, mostRecentFilename)
        diffs == patch_make(fileData_, prevFileData)
        patch == patch_toText(diffs)
    IN  IF getEditEpoch(mostRecentFilename) = getEditEpoch(newFilename)
        THEN [return |-> "SkippedCollision", files |-> files]
        ELSE IF diffs # <<>> /\ PatchTextLen(patch) < TextLen(prevFileData)
        THEN [return |-> "",
              files |-> ZipWrite(ZipRemove(files, mostRecentFilename),
                                 buildEditFilename(getEditEpoch(mostRecentFilename), TRUE),
                                 patch)]
        ELSE [return |-> "", files |-> files]

\* FoldMostRecent without the comparison of the lengths
FoldMostRecentAnyLength(filepaths, files, fileData_, newFilename) ==
    LET mostRecentFilename == filepaths[1]
        prevFileData == ZipRead(files, mostRecentFilename)
        diffs == patch_make(fileData_, prevFileData)
        patch == patch_toText(diffs)
    IN  IF getEditEpoch(mostRecentFilename) = getEditEpoch(newFilename)
        THEN [return |-> "SkippedCollision", files |-> files]
        ELSE IF diffs = <<>>
        THEN [return |-> "SkippedNoChange", files |-> files]
        ELSE [return |-> "",
              files |-> ZipWrite(ZipRemove(files, mostRecentFilename),
                                 buildEditFilename(getEditEpoch(mostRecentFilename), TRUE),
                                 patch)]

\* the diff of the most recent stored edit against the incoming file data:
\* "return" when nothing is to be stored, else the archive to append to
FoldMostRecent(filepaths, files, fileData_, newFilename) ==
    LET mostRecentFilename == filepaths[1]
        prevFileData == ZipRead(files, mostRecentFilename)
        diffs == patch_make(fileData_, prevFileData)
        patch == patch_toText(diffs)
    IN  IF getEditEpoch(mostRecentFilename) = getEditEpoch(newFilename)
        THEN [return |-> "SkippedCollision", files |-> files]
        ELSE IF diffs = <<>>
        THEN [return |-> "SkippedNoChange", files |-> files]
        ELSE IF PatchTextLen(patch) < TextLen(prevFileData)
        THEN [return |-> "",
              files |-> ZipWrite(ZipRemove(files, mostRecentFilename),
                                 buildEditFilename(getEditEpoch(mostRecentFilename), TRUE),
                                 patch)]
        ELSE [return |-> "", files |-> files]

\* UpdateZip with the incoming data stored under the name of a diff
UpdateZipNewAsDiff(files, zipFileSize, fileData_, mtime, todayUTC) ==
    LET newFilename == buildEditFilename(mtime, FALSE)
        purged == PurgeLoop(sortEdits(ZipNames(files)), files, zipFileSize, todayUTC)
        folded == IF purged.filepaths # <<>>
                  THEN FoldMostRecent(purged.filepaths, purged.files, fileData_, newFilename)
                  ELSE [return |-> "", files |-> purged.files]
    IN  IF folded.return # ""
        THEN [outcome |-> folded.return, files |-> files, kept |-> ZipNames(files)]
        ELSE [outcome |-> "Stored",
              files |-> ZipWrite(folded.files, buildEditFilename(mtime, TRUE), fileData_),
              kept |-> purged.filepaths]

\* UpdateZip without the new entry when the purge loop left no entry
UpdateZipPurgedOnly(files, zipFileSize, fileData_, mtime, todayUTC) ==
    LET newFilename == buildEditFilename(mtime, FALSE)
        purged == PurgeLoop(sortEdits(ZipNames(files)), files, zipFileSize, todayUTC)
        folded == IF purged.filepaths # <<>>
                  THEN FoldMostRecent(purged.filepaths, purged.files, fileData_, newFilename)
                  ELSE [return |-> "", files |-> purged.files]
    IN  IF folded.return # ""
        THEN [outcome |-> folded.return, files |-> files, kept |-> ZipNames(files)]
        ELSE [outcome |-> "Stored",
              files |-> IF purged.filepaths = <<>> /\ files # <<>>
                        THEN folded.files
                        ELSE ZipWrite(folded.files, newFilename, fileData_),
              kept |-> purged.filepaths]

\* the handler from the archive load to the entry stored in full; kept are
\* the names the purge loop left
UpdateZip(files, zipFileSize, fileData_, mtime, todayUTC) ==
    LET newFilename == buildEditFilename(mtime, FALSE)
        purged == PurgeLoop(sortEdits(ZipNames(files)), files, zipFileSize, todayUTC)
        folded == IF purged.filepaths # <<>>
                  THEN FoldMostRecent(purged.filepaths, purged.files, fileData_, newFilename)
                  ELSE [return |-> "", files |-> purged.files]
    IN  IF folded.return # ""
        THEN [outcome |-> folded.return, files |-> files, kept |-> ZipNames(files)]
        ELSE [outcome |-> "Stored",
              files |-> ZipWrite(folded.files, newFilename, fileData_),
              kept |-> purged.filepaths]

\* ModifyHandler without the check of manual saving
ModifyHandlerNoManualCheck(fileData_, mtime, force) ==
    IF ~force /\ zipFile # "null" /\ mtime - zipMtime < minMsBetweenEdits
    THEN [outcome |-> "SkippedRateLimited", files |-> zip, kept |-> ZipNames(zip)]
    ELSE IF zipFile = "null"
    THEN [outcome |-> "Stored",
          files |-> ZipWrite(<<>>, buildEditFilename(mtime, FALSE), fileData_),
          kept |-> <<>>]
    ELSE UpdateZip(zip, ByteLength(zip), fileData_, mtime, now)

\* ModifyHandler without the check of the time since the archive was written
ModifyHandlerNoRateGate(fileData_, mtime, force) ==
    IF minMsBetweenEdits = Infinity /\ ~force
    THEN [outcome |-> "SkippedManual", files |-> zip, kept |-> ZipNames(zip)]
    ELSE IF zipFile = "null"
    THEN [outcome |-> "Stored",
          files |-> ZipWrite(<<>>, buildEditFilename(mtime, FALSE), fileData_),
          kept |-> <<>>]
    ELSE UpdateZip(zip, ByteLength(zip), fileData_, mtime, now)

\* ModifyHandler with the force flag ignored
ModifyHandlerForceIgnored(fileData_, mtime, force) ==
    IF minMsBetweenEdits = Infinity
    THEN [outcome |-> "SkippedManual", files |-> zip, kept |-> ZipNames(zip)]
    ELSE IF zipFile # "null" /\ mtime - zipMtime < minMsBetweenEdits
    THEN [outcome |-> "SkippedRateLimited", files |-> zip, kept |-> ZipNames(zip)]
    ELSE IF zipFile = "null"
    THEN [outcome |-> "Stored",
          files |-> ZipWrite(<<>>, buildEditFilename(mtime, FALSE), fileData_),
          kept |-> <<>>]
    ELSE UpdateZip(zip, ByteLength(zip), fileData_, mtime, now)

\* ModifyHandler with the time since the archive was written compared with
\* the setting in seconds, not in milliseconds
ModifyHandlerGateInSeconds(fileData_, mtime, force) ==
    IF minMsBetweenEdits = Infinity /\ ~force
    THEN [outcome |-> "SkippedManual", files |-> zip, kept |-> ZipNames(zip)]
    ELSE IF ~force /\ zipFile # "null"
            /\ mtime - zipMtime < settings.minSecondsBetweenEdits
    THEN [outcome |-> "SkippedRateLimited", files |-> zip, kept |-> ZipNames(zip)]
    ELSE IF zipFile = "null"
    THEN [outcome |-> "Stored",
          files |-> ZipWrite(<<>>, buildEditFilename(mtime, FALSE), fileData_),
          kept |-> <<>>]
    ELSE UpdateZip(zip, ByteLength(zip), fileData_, mtime, now)

\* ModifyHandler with the time check made also when there is no archive,
\* against a time of 0
ModifyHandlerGateWithoutArchive(fileData_, mtime, force) ==
    IF minMsBetweenEdits = Infinity /\ ~force
    THEN [outcome |-> "SkippedManual", files |-> zip, kept |-> ZipNames(zip)]
    ELSE IF ~force /\ mtime - zipMtime < minMsBetweenEdits
    THEN [outcome |-> "SkippedRateLimited", files |-> zip, kept |-> ZipNames(zip)]
    ELSE IF zipFile = "null"
    THEN [outcome |-> "Stored",
          files |-> ZipWrite(<<>>, buildEditFilename(mtime, FALSE), fileData_),
          kept |-> <<>>]
    ELSE UpdateZip(zip, ByteLength(zip), fileData_, mtime, now)

\* the whole handler: how it ends and the archive it leaves
ModifyHandler(fileData_, mtime, force) ==
    IF minMsBetweenEdits = Infinity /\ ~force
    THEN [outcome |-> "SkippedManual", files |-> zip, kept |-> ZipNames(zip)]
    ELSE IF ~force /\ zipFile # "null" /\ mtime - zipMtime < minMsBetweenEdits
    THEN [outcome |-> "SkippedRateLimited", files |-> zip, kept |-> ZipNames(zip)]
    ELSE IF zipFile = "null"
    THEN [outcome |-> "Stored",
          files |-> ZipWrite(<<>>, buildEditFilename(mtime, FALSE), fileData_),
          kept |-> <<>>]
    ELSE UpdateZip(zip, ByteLength(zip), fileData_, mtime, now)

(* --------------------- EditHistoryModal select.onChange ---------------- *)
\* the loop over the entries, most recent first: data is rebuilt entry by
\* entry, currentData is the data of the selected entry
RECURSIVE SelectLoop(_, _, _, _, _, _)
SelectLoop(filepaths, files, selectedEdit, data, currentData, found) ==
    IF filepaths = <<>>
    THEN [currentData |-> currentData, data |-> data, previousFound |-> FALSE]
    ELSE LET filepath == Head(filepaths)
             diff == ZipRead(files, filepath)
             newData == IF getEditIsDiff(filepath)
                        THEN patch_apply(patch_fromText(diff), data)
                        ELSE diff
         IN  IF found
             THEN [currentData |-> currentData, data |-> newData, previousFound |-> TRUE]
             ELSE SelectLoop(Tail(filepaths), files, selectedEdit, newData, newData,
                             selectedEdit = filepath)

\* SelectEdit without the empty file taken for the version before the oldest
SelectEditOldestAgainstItself(files, selectedEdit, latestData) ==
    LET r == SelectLoop(sortEdits(ZipNames(files)), files, selectedEdit,
                        latestData, latestData, FALSE)
    IN  [currentVersionData |-> r.currentData, data |-> r.data]

\* the handler up to the diff: the version copied (currentVersionData) and
\* the older version it is diffed against
SelectEdit(files, selectedEdit, latestData) ==
    LET r == SelectLoop(sortEdits(ZipNames(files)), files, selectedEdit,
                        latestData, latestData, FALSE)
    IN  [currentVersionData |-> r.currentData,
         data |-> IF r.previousFound THEN r.data ELSE <<>>]

(* ------------------------------ actions -------------------------------- *)
\* the epoch seconds of a list of names, and of the entries of an archive
NameEpochs(names) == {getEditEpoch(names[i]) \div 1000 : i \in 1..Len(names)}

Epochs(files) == NameEpochs(ZipNames(files))

\* a modify notification for the note, with its content and mtime
Notify(fileData_, mtime, force) ==
    LET r == ModifyHandler(fileData_, mtime, force)
        stored == r.outcome = "Stored"
        epoch == mtime \div 1000
    IN  /\ fileData' = fileData_
        /\ fileMtime' = mtime
        /\ outcome' = r.outcome
        /\ lastForce' = force
        /\ zip' = r.files
        /\ zipFile' = IF stored THEN "file" ELSE zipFile
        /\ zipMtime' = IF stored THEN now ELSE zipMtime
        /\ monotone' = IF stored
                       THEN monotone /\ \A e \in Epochs(zip) : e < epoch
                       ELSE monotone
        /\ saved' = IF ~monotone' THEN <<>>
                    ELSE IF stored
                    THEN [e \in (DOMAIN saved \cap NameEpochs(r.kept)) \cup {epoch} |->
                            IF e = epoch THEN fileData_ ELSE saved[e]]
                    ELSE saved
        /\ everStored' = IF ~monotone' THEN <<>>
                         ELSE IF stored
                         THEN [e \in DOMAIN everStored \cup {epoch} |->
                                 IF e = epoch THEN fileData_ ELSE everStored[e]]
                         ELSE everStored
        /\ UNCHANGED <<now, settings, vaultVars, asyncVars, modal>>

\* the note is edited and saved in Obsidian
EditFile ==
    /\ \E d \in Texts : Notify(d, now, FALSE)
    /\ UNCHANGED forced

\* the note is replaced from outside (sync, restore) by a copy that keeps
\* the mtime of the time the note was created
ExternalModify ==
    /\ now > 0
    /\ \E d \in Texts : Notify(d, 0, FALSE)
    /\ UNCHANGED forced

\* the command "Save current edit in the edit history"
SaveEditHistory ==
    /\ forced < MaxForced
    /\ forced' = forced + 1
    /\ Notify(fileData, fileMtime, TRUE)

Tick ==
    /\ now + 500 \in Times
    /\ now' = now + 500
    /\ UNCHANGED <<fileData, fileMtime, zipFile, zip, zipMtime, settings,
                   outcome, lastForce, saved, monotone, forced, everStored>>
    /\ UNCHANGED <<vaultVars, asyncVars, modal>>

Init ==
    /\ now = 0
    /\ fileData = <<>>
    /\ fileMtime = 0
    /\ zipFile = "null"
    /\ zip = <<>>
    /\ zipMtime = 0
    /\ settings \in SettingsChoices
    /\ outcome = "None"
    /\ lastForce = FALSE
    /\ saved = <<>>
    /\ monotone = TRUE
    /\ forced = 0
    /\ everStored = <<>>
    /\ vault = {}
    /\ listSettings = [extensionWhitelist |-> <<>>, substringBlacklist |-> <<>>]
    /\ events = {}
    /\ handlers = NoHandlers
    /\ noteDeleted = FALSE
    /\ zipValid = TRUE
    /\ modal = NoModal
    /\ tab = DefaultTab
    /\ purge = NoPurge
    /\ codec = NoCodec

Next == EditFile \/ ExternalModify \/ SaveEditHistory \/ Tick

Spec == Init /\ [][Next]_vars

(* ------------------------------ strings -------------------------------- *)
\* a string is the sequence of its characters
toLowerCase(s) ==
    [i \in DOMAIN s |->
        CASE s[i] = "B" -> "b" [] s[i] = "D" -> "d" [] s[i] = "M" -> "m"
          [] s[i] = "N" -> "n" [] s[i] = "T" -> "t" [] s[i] = "X" -> "x"
          [] OTHER -> s[i]]

endsWith(s, suffix) ==
    /\ Len(suffix) <= Len(s)
    /\ SubSeq(s, Len(s) - Len(suffix) + 1, Len(s)) = suffix

contains(s, substring) ==
    \E i \in 0..(Len(s) - Len(substring)) : SubSeq(s, i + 1, i + Len(substring)) = substring

RECURSIVE trim(_)
trim(s) ==
    IF s # <<>> /\ Head(s) = " " THEN trim(Tail(s))
    ELSE IF s # <<>> /\ Last(s) = " " THEN trim(Front(s))
    ELSE s

\* s.split(separator): the pieces between the separators, empty ones included
RECURSIVE split(_, _)
split(s, separator) ==
    IF \A i \in DOMAIN s : s[i] # separator THEN <<s>>
    ELSE LET i == CHOOSE k \in DOMAIN s :
                      s[k] = separator /\ \A j \in 1..(k - 1) : s[j] # separator
         IN  <<SubSeq(s, 1, i - 1)>> \o split(SubSeq(s, i + 1, Len(s)), separator)

(* --------------------------- tracking policy --------------------------- *)
EDIT_HISTORY_FILE_EXT == <<".", "e", "d", "t", "z">>

commaSeparatedToList(s) ==
    IF s = <<>> THEN <<>>
    ELSE LET list == split(s, ",")
         IN  [i \in DOMAIN list |-> toLowerCase(trim(list[i]))]

extensionWhitelist == commaSeparatedToList(listSettings.extensionWhitelist)

substringBlacklist == commaSeparatedToList(listSettings.substringBlacklist)

\* file.name: the path after its last "/"
FileName(path) == Last(split(path, "/"))

\* keepEditHistoryForFile without the lowercasing of the path and the name
keepEditHistoryForFileCaseSensitive(file) ==
    IF ~file.isFile THEN FALSE
    ELSE IF endsWith(FileName(file.path), EDIT_HISTORY_FILE_EXT) THEN FALSE
    ELSE IF /\ Len(substringBlacklist) > 0
            /\ \E i \in DOMAIN substringBlacklist :
                   contains(file.path, substringBlacklist[i])
    THEN FALSE
    ELSE IF Len(extensionWhitelist) = 0 THEN TRUE
    ELSE \E i \in DOMAIN extensionWhitelist :
             endsWith(FileName(file.path), extensionWhitelist[i])

\* keepEditHistoryForFile without the trap of the edit history files
keepEditHistoryForFileNoTrap(file) ==
    IF ~file.isFile THEN FALSE
    ELSE IF /\ Len(substringBlacklist) > 0
            /\ \E i \in DOMAIN substringBlacklist :
                   contains(toLowerCase(file.path), substringBlacklist[i])
    THEN FALSE
    ELSE IF Len(extensionWhitelist) = 0 THEN TRUE
    ELSE \E i \in DOMAIN extensionWhitelist :
             endsWith(toLowerCase(FileName(file.path)), extensionWhitelist[i])

\* a file is a record of its path and of whether it is a TFile (or a folder)
keepEditHistoryForFile(file) ==
    IF ~file.isFile THEN FALSE
    ELSE IF endsWith(FileName(file.path), EDIT_HISTORY_FILE_EXT) THEN FALSE
    ELSE IF /\ Len(substringBlacklist) > 0
            /\ \E i \in DOMAIN substringBlacklist :
                   contains(toLowerCase(file.path), substringBlacklist[i])
    THEN FALSE
    ELSE IF Len(extensionWhitelist) = 0 THEN TRUE
    ELSE \E i \in DOMAIN extensionWhitelist :
             endsWith(toLowerCase(FileName(file.path)), extensionWhitelist[i])

\* normalizePath(editHistoryRootFolder + "/" + filepath + EDIT_HISTORY_FILE_EXT)
\* with the root folder "", its only value
getEditHistoryFilepath(filepath) == filepath \o EDIT_HISTORY_FILE_EXT

(* ------------------------ the files of the vault ----------------------- *)
\* the paths a note can have
NotePaths ==
    { <<"n", ".", "m", "d">>,
      <<"a", "/", "n", ".", "m", "d">>,
      <<"b", "/", "a", "/", "n", ".", "m", "d">>,
      <<"B", "/", "N", ".", "M", "D">>,
      <<"n", ".", "t", "x", "t">> }

\* the folders that can be moved, with the path they are moved to
FolderMoves ==
    { [from |-> <<"a">>, to |-> <<"b", "/", "a">>],
      [from |-> <<"b", "/", "a">>, to |-> <<"a">>] }

\* what the user can type as extension whitelist and as substring blacklist
WhitelistChoices ==
    { <<>>,
      <<".", "m", "d">>,
      <<" ", ".", "M", "D", ",", ".", "t", "x", "t">>,
      <<".", "m", "d", ",">> }

BlacklistChoices == { <<>>, <<" ", "B", "/">> }

\* the vault starts with at most MaxNotes notes
MaxNotes == 2

startsWith(s, prefix) == Len(prefix) <= Len(s) /\ SubSeq(s, 1, Len(prefix)) = prefix

TFile(path) == [path |-> path, isFile |-> TRUE]

TFolder(path) == [path |-> path, isFile |-> FALSE]

\* the name of the parent folder of a path, "" for a path without folder
ParentFolder(path) ==
    LET filedirs == split(path, "/")
    IN  IF Len(filedirs) > 1 THEN filedirs[Len(filedirs) - 1] ELSE <<>>

\* vault.on("modify"): the files of the vault after the handler; the archive
\* is created when the handler stores and there is none
OnModify(files, file, force) ==
    IF ~keepEditHistoryForFile(file) THEN files
    ELSE IF minMsBetweenEdits = Infinity /\ ~force THEN files
    ELSE files \cup {getEditHistoryFilepath(file.path)}

\* vault.on("rename"): the files of the vault after the handler; vault.rename
\* fails when there is a file at the new path
OnRename(files, file, oldPath) ==
    IF ~keepEditHistoryForFile(file) THEN files
    ELSE IF /\ ParentFolder(oldPath) = ParentFolder(file.path)
            /\ FileName(oldPath) = FileName(file.path)
    THEN files
    ELSE LET zipFilepath == getEditHistoryFilepath(oldPath)
             newZipFilepath == getEditHistoryFilepath(file.path)
         IN  IF zipFilepath \in files /\ newZipFilepath \notin files
             THEN (files \ {zipFilepath}) \cup {newZipFilepath}
             ELSE files

\* the archive files that the handler of "modify" looks up, reads or writes
ModifyTouches(files, file, force) ==
    IF ~keepEditHistoryForFile(file) THEN {}
    ELSE IF minMsBetweenEdits = Infinity /\ ~force THEN {}
    ELSE {getEditHistoryFilepath(file.path)}

\* the archive files that the handler of "rename" gives to vault.rename
RenameTouches(files, file, oldPath) ==
    IF ~keepEditHistoryForFile(file) THEN {}
    ELSE IF /\ ParentFolder(oldPath) = ParentFolder(file.path)
            /\ FileName(oldPath) = FileName(file.path)
    THEN {}
    ELSE {getEditHistoryFilepath(oldPath)} \cap files

\* the archive files that the handler of "delete" gives to vault.delete
DeleteTouches(files, file) ==
    IF ~keepEditHistoryForFile(file) THEN {}
    ELSE {getEditHistoryFilepath(file.path)} \cap files

\* OnDelete without the check of the tracking policy
OnDeleteUntracked(files, file) ==
    files \ {getEditHistoryFilepath(file.path)}

\* OnDelete with the path of the note taken for the path of its archive
OnDeleteNotePath(files, file) ==
    IF ~keepEditHistoryForFile(file) THEN files
    ELSE files \ {file.path}

\* vault.on("delete"): the files of the vault after the handler
OnDelete(files, file) ==
    IF ~keepEditHistoryForFile(file) THEN files
    ELSE files \ {getEditHistoryFilepath(file.path)}

\* the handler of "rename" called for each moved file of a folder, one by one
RECURSIVE OnRenameAll(_, _)
OnRenameAll(files, moves) ==
    IF moves = {} THEN files
    ELSE LET m == CHOOSE x \in moves : TRUE
         IN  OnRenameAll(OnRename(files, TFile(m.path), m.oldPath), moves \ {m})

\* a notification as the handlers see it
Event(kind, file, oldPath, touched) ==
    [kind |-> kind, path |-> file.path, isFile |-> file.isFile, oldPath |-> oldPath,
     kept |-> keepEditHistoryForFile(file), touched |-> touched]

\* a file of the vault, note or archive, is modified, or the save command is
\* used on it (the write of an archive by the plugin is notified like this)
VaultModify ==
    /\ \E path \in vault, force \in BOOLEAN :
          /\ vault' = OnModify(vault, TFile(path), force)
          /\ events' = {Event("modify", TFile(path), path,
                                  ModifyTouches(vault, TFile(path), force))}
    /\ UNCHANGED <<listSettings, tab, purge, codec, noteVars, asyncVars, modal>>

\* the user renames or moves a note; the rename of the archive by the plugin
\* is notified in turn
VaultRename ==
    /\ \E oldPath \in vault \cap NotePaths, path \in NotePaths \ vault :
          LET moved == (vault \ {oldPath}) \cup {path}
              renamed == OnRename(moved, TFile(path), oldPath)
              zipFile_ == TFile(getEditHistoryFilepath(path))
              zipFilepath == getEditHistoryFilepath(oldPath)
              touched == RenameTouches(moved, TFile(path), oldPath)
          IN  IF renamed = moved
              THEN /\ vault' = renamed
                   /\ events' = {Event("rename", TFile(path), oldPath, touched)}
              ELSE /\ vault' = OnRename(renamed, zipFile_, zipFilepath)
                   /\ events' = {Event("rename", TFile(path), oldPath, touched),
                                 Event("rename", zipFile_, zipFilepath,
                                       RenameTouches(renamed, zipFile_, zipFilepath))}
    /\ UNCHANGED <<listSettings, tab, purge, codec, noteVars, asyncVars, modal>>

\* the user moves a folder: Obsidian moves the files in it, notes and
\* archives, and notifies the rename of the folder and of each file
VaultMoveFolder ==
    /\ \E m \in FolderMoves :
          LET from == Append(m.from, "/")
              to == Append(m.to, "/")
              inside == {p \in vault : startsWith(p, from)}
              NewPath(p) == to \o SubSeq(p, Len(from) + 1, Len(p))
              moves == {[path |-> NewPath(p), oldPath |-> p] : p \in inside}
              moved == (vault \ inside) \cup {NewPath(p) : p \in inside}
          IN  /\ inside # {}
              /\ \A p \in vault : ~startsWith(p, to)
              /\ vault' = OnRenameAll(moved, moves)
              /\ events' = {Event("rename", TFolder(m.to), m.from,
                                       RenameTouches(moved, TFolder(m.to), m.from))}
                           \cup {Event("rename", TFile(x.path), x.oldPath,
                                        RenameTouches(moved, TFile(x.path), x.oldPath))
                                    : x \in moves}
    /\ UNCHANGED <<listSettings, tab, purge, codec, noteVars, asyncVars, modal>>

\* the user deletes a note; the deletion of the archive by the plugin is
\* notified in turn
VaultDelete ==
    /\ \E path \in vault \cap NotePaths :
          LET removed == vault \ {path}
              deleted == OnDelete(removed, TFile(path))
              zipFile_ == TFile(getEditHistoryFilepath(path))
              touched == DeleteTouches(removed, TFile(path))
          IN  IF deleted = removed
              THEN /\ vault' = deleted
                   /\ events' = {Event("delete", TFile(path), path, touched)}
              ELSE /\ vault' = OnDelete(deleted, zipFile_)
                   /\ events' = {Event("delete", TFile(path), path, touched),
                                 Event("delete", zipFile_, zipFile_.path,
                                       DeleteTouches(deleted, zipFile_))}
    /\ UNCHANGED <<listSettings, tab, purge, codec, noteVars, asyncVars, modal>>

InitVault ==
    /\ now = 0
    /\ fileData = <<>>
    /\ fileMtime = 0
    /\ zipFile = "null"
    /\ zip = <<>>
    /\ zipMtime = 0
    /\ settings \in {x \in SettingsChoices :
                        x.maxEdits = 0 /\ x.maxEditAge = 0 /\ x.maxHistoryFileSizeKB = 0}
    /\ outcome = "None"
    /\ lastForce = FALSE
    /\ saved = <<>>
    /\ monotone = TRUE
    /\ forced = 0
    /\ everStored = <<>>
    /\ vault \in {v \in SUBSET NotePaths : 1 <= Cardinality(v) /\ Cardinality(v) <= MaxNotes}
    /\ listSettings \in [extensionWhitelist : WhitelistChoices,
                         substringBlacklist : BlacklistChoices]
    /\ events = {}
    /\ handlers = NoHandlers
    /\ noteDeleted = FALSE
    /\ zipValid = TRUE
    /\ modal = NoModal
    /\ tab = DefaultTab
    /\ purge = NoPurge
    /\ codec = NoCodec

NextVault == VaultModify \/ VaultRename \/ VaultMoveFolder \/ VaultDelete

SpecVault == InitVault /\ [][NextVault]_vars

(* ------------- the "modify" handler, from await to await --------------- *)
\* the settings tried with several invocations in flight
AsyncSettingsChoices ==
    {x \in SettingsChoices :
        x.maxEditAge = 0 /\ x.maxHistoryFileSizeKB = 0 /\ x.maxEdits # 1}

\* the archives an invocation can find: none, a folder at the archive path,
\* the archive written for the empty note at time 0, a file that is no zip
AsyncArchiveChoices ==
    {[zipFile |-> "null", zip |-> <<>>, zipValid |-> TRUE],
     [zipFile |-> "folder", zip |-> <<>>, zipValid |-> TRUE],
     [zipFile |-> "file", zip |-> ZipWrite(<<>>, buildEditFilename(0, FALSE), <<>>),
      zipValid |-> TRUE],
     [zipFile |-> "file", zip |-> <<>>, zipValid |-> FALSE]}

\* the contents the note is given while invocations are in flight
AsyncTexts == {<<1>>, <<1, 2>>}

\* the slot of the next invocation
FreeHandler ==
    CHOOSE h \in Handlers :
        /\ handlers[h].pc = "idle"
        /\ \A k \in Handlers : handlers[k].pc = "idle" => h <= k

\* the handler from its call to its first await: the checks of manual saving,
\* of the archive path and of the time since the archive was written; it
\* returns at once (return) or is suspended at vault.read
HandlerStart(mtime, force) ==
    IF minMsBetweenEdits = Infinity /\ ~force
    THEN [return |-> "SkippedManual", handler |-> IdleHandler]
    ELSE IF zipFile = "folder"
    THEN [return |-> "NotAFile", handler |-> IdleHandler]
    ELSE IF ~force /\ zipFile # "null" /\ mtime - zipMtime < minMsBetweenEdits
    THEN [return |-> "SkippedRateLimited", handler |-> IdleHandler]
    ELSE [return |-> "",
          handler |-> [IdleHandler EXCEPT !.pc = "read", !.zipFile = zipFile]]

\* a call of the handler for the note
CallHandler(mtime, force) ==
    LET r == HandlerStart(mtime, force)
    IN  /\ \E h \in Handlers : handlers[h].pc = "idle"
        /\ handlers' = [handlers EXCEPT ![FreeHandler] = r.handler]
        /\ outcome' = IF r.return = "" THEN outcome ELSE r.return
        /\ lastForce' = force

\* the note is edited and saved in Obsidian: the handler is called and runs
\* to its first await
AsyncEditFile ==
    /\ ~noteDeleted
    /\ \E d \in AsyncTexts \ {fileData} :
          /\ fileData' = d
          /\ fileMtime' = now
    /\ CallHandler(now, FALSE)
    /\ UNCHANGED <<now, zipFile, zip, zipMtime, settings, saved, monotone, forced,
                   everStored, zipValid, noteDeleted, vaultVars, modal>>

\* the command "Save current edit in the edit history"
AsyncSaveEditHistory ==
    /\ ~noteDeleted
    /\ forced < MaxForced
    /\ forced' = forced + 1
    /\ CallHandler(fileMtime, TRUE)
    /\ UNCHANGED <<now, fileData, fileMtime, zipFile, zip, zipMtime, settings,
                   saved, monotone, everStored, zipValid, noteDeleted, vaultVars, modal>>

\* vault.read resolves: the note's content and mtime as they are now; with no
\* archive the new zip is built at once
ReadFile(h) ==
    /\ handlers[h].pc = "read"
    /\ ~noteDeleted
    /\ handlers' = [handlers EXCEPT ![h] =
          IF handlers[h].zipFile = "null"
          THEN [@ EXCEPT !.pc = "write", !.fileData = fileData, !.mtime = fileMtime,
                         !.newZipData = ZipWrite(<<>>, buildEditFilename(fileMtime, FALSE),
                                                 fileData)]
          ELSE [@ EXCEPT !.pc = "readBinary", !.fileData = fileData,
                         !.mtime = fileMtime]]
    /\ UNCHANGED <<noteVars, zipValid, noteDeleted, vaultVars, modal>>

\* LoadZip with a file that is no zip taken for an empty archive
LoadZipIgnoreCorrupt(h, read) ==
    IF read = "rejects" THEN [return |-> "ReadError", handler |-> IdleHandler]
    ELSE LET files == IF zipValid THEN zip ELSE <<>>
             r == UpdateZip(files, ByteLength(files), handlers[h].fileData,
                            handlers[h].mtime, now)
         IN  IF r.outcome # "Stored"
             THEN [return |-> r.outcome, handler |-> IdleHandler]
             ELSE [return |-> "",
                   handler |-> [handlers[h] EXCEPT !.pc = "write",
                                                   !.newZipData = r.files]]

\* the handler from vault.readBinary to zip.generateAsync: the read resolves
\* or rejects, a file that is no zip makes zip.loadAsync reject, and the
\* entries of the archive as it is now are purged and folded and the new one
\* is added
LoadZip(h, read) ==
    IF read = "rejects" THEN [return |-> "ReadError", handler |-> IdleHandler]
    ELSE IF ~zipValid THEN [return |-> "CorruptArchive", handler |-> IdleHandler]
    ELSE LET r == UpdateZip(zip, ByteLength(zip), handlers[h].fileData,
                            handlers[h].mtime, now)
         IN  IF r.outcome # "Stored"
             THEN [return |-> r.outcome, handler |-> IdleHandler]
             ELSE [return |-> "",
                   handler |-> [handlers[h] EXCEPT !.pc = "write",
                                                   !.newZipData = r.files]]

ReadZip(h) ==
    /\ handlers[h].pc = "readBinary"
    /\ \E read \in (IF zipFile = "file" THEN {"resolves", "rejects"} ELSE {"rejects"}) :
          LET r == LoadZip(h, read)
          IN  /\ handlers' = [handlers EXCEPT ![h] = r.handler]
              /\ outcome' = IF r.return = "" THEN outcome ELSE r.return
    /\ UNCHANGED <<now, fileData, fileMtime, zipFile, zip, zipMtime, settings,
                   lastForce, saved, monotone, forced, everStored, zipValid,
                   noteDeleted, vaultVars, modal>>

\* vault.createBinary or vault.modifyBinary ends: the file is written, or
\* the call fails with nothing written, or it fails with the file written in
\* part; createBinary fails when the file exists
WriteZip(h) ==
    /\ handlers[h].pc = "write"
    /\ \E write \in {"written", "nothing", "part"} :
          LET exists == handlers[h].zipFile = "null" /\ zipFile # "null"
              result == IF exists THEN "nothing" ELSE write
          IN  /\ handlers' = [handlers EXCEPT ![h] = IdleHandler]
              /\ outcome' = IF result = "written" THEN "Stored" ELSE "WriteError"
              /\ zipFile' = IF result = "nothing" THEN zipFile ELSE "file"
              /\ zip' = IF result = "written" THEN handlers[h].newZipData
                        ELSE IF result = "part" THEN <<>> ELSE zip
              /\ zipMtime' = IF result = "nothing" THEN zipMtime ELSE now
              /\ zipValid' = IF result = "written" THEN TRUE
                             ELSE IF result = "part" THEN FALSE ELSE zipValid
    /\ UNCHANGED <<now, fileData, fileMtime, settings, lastForce, saved,
                   monotone, forced, everStored, noteDeleted, vaultVars, modal>>

InitAsync ==
    /\ now = 0
    /\ fileData = <<>>
    /\ fileMtime = 0
    /\ \E a \in AsyncArchiveChoices :
          /\ zipFile = a.zipFile
          /\ zip = a.zip
          /\ zipValid = a.zipValid
    /\ zipMtime = 0
    /\ settings \in AsyncSettingsChoices
    /\ outcome = "None"
    /\ lastForce = FALSE
    /\ saved = <<>>
    /\ monotone = TRUE
    /\ forced = 0
    /\ everStored = <<>>
    /\ vault = {}
    /\ listSettings = [extensionWhitelist |-> <<>>, substringBlacklist |-> <<>>]
    /\ events = {}
    /\ handlers = NoHandlers
    /\ noteDeleted = FALSE
    /\ modal = NoModal
    /\ tab = DefaultTab
    /\ purge = NoPurge
    /\ codec = NoCodec

NextAsync ==
    \/ AsyncEditFile
    \/ AsyncSaveEditHistory
    \/ \E h \in Handlers : ReadFile(h)
    \/ \E h \in Handlers : ReadZip(h)
    \/ \E h \in Handlers : WriteZip(h)
    \/ Tick

SpecAsync == InitAsync /\ [][NextAsync]_vars

(* ------------- the note deleted with invocations in flight ------------- *)
\* vault.read rejects for an invocation suspended there when the note was
\* deleted: the invocation ends
ReadFileRejects(h) ==
    /\ handlers[h].pc = "read"
    /\ noteDeleted
    /\ handlers' = [handlers EXCEPT ![h] = IdleHandler]
    /\ outcome' = "ReadError"
    /\ UNCHANGED <<now, fileData, fileMtime, zipFile, zip, zipMtime, settings,
                   lastForce, saved, monotone, forced, everStored, zipValid,
                   noteDeleted, vaultVars, modal>>

\* the note is deleted: the handler of "delete" deletes what is at the
\* archive path, if anything
AsyncDelete ==
    /\ ~noteDeleted
    /\ noteDeleted' = TRUE
    /\ zipFile' = "null"
    /\ zip' = <<>>
    /\ zipValid' = TRUE
    /\ UNCHANGED <<now, fileData, fileMtime, zipMtime, settings, outcome, lastForce,
                   saved, monotone, forced, everStored, handlers, vaultVars, modal>>

NextAsyncDelete ==
    \/ NextAsync
    \/ AsyncDelete
    \/ \E h \in Handlers : ReadFileRejects(h)

SpecAsyncDelete == InitAsync /\ [][NextAsyncDelete]_vars

(* --------------------------- EditHistoryModal -------------------------- *)
\* the settings tried with the modal
ModalSettingsChoices ==
    {x \in SettingsChoices :
        /\ x.minSecondsBetweenEdits = 1
        /\ x.maxEditAge = 0 /\ x.maxHistoryFileSizeKB = 0 /\ x.maxEdits # 1}

\* select.onChange with the archive read again from the vault
onChangeLive(m, selectedEdit) ==
    [m EXCEPT !.selectedEdit = selectedEdit,
              !.currentVersionData =
                  SelectEdit(zip, selectedEdit, m.latestData).currentVersionData,
              !.data = SelectEdit(zip, selectedEdit, m.latestData).data]

\* select.onChange: the version of the selected entry, rebuilt from the zip
\* and the latestData that onOpen loaded, and the older version (data) that
\* diff_main(data, currentData) shows it against
onChange(m, selectedEdit) ==
    [m EXCEPT !.selectedEdit = selectedEdit,
              !.currentVersionData =
                  SelectEdit(m.zip, selectedEdit, m.latestData).currentVersionData,
              !.data = SelectEdit(m.zip, selectedEdit, m.latestData).data]

\* the modal is opened for the note: onOpen runs to await vault.read
ModalOpen ==
    /\ modal.pc = "closed"
    /\ modal' = [NoModal EXCEPT !.pc = "read"]
    /\ UNCHANGED <<noteVars, vaultVars, asyncVars>>

\* vault.read resolves; with no archive the modal shows "No edit history file"
ModalReadLatest ==
    /\ modal.pc = "read"
    /\ modal' = [modal EXCEPT !.latestData = fileData,
                              !.pc = IF zipFile = "null" THEN "empty" ELSE "readBinary"]
    /\ UNCHANGED <<noteVars, vaultVars, asyncVars>>

\* vault.readBinary and zip.loadAsync resolve: the entries are listed, most
\* recent first
ModalLoadZip ==
    /\ modal.pc = "readBinary"
    /\ LET filepaths == sortEdits(ZipNames(zip))
       IN  modal' = [modal EXCEPT
               !.zip = zip,
               !.filepaths = filepaths,
               !.pc = IF filepaths = <<>> THEN "empty" ELSE "open",
               !.atOpen = [i \in 1..Len(filepaths) |->
                             SelectEdit(zip, filepaths[i], modal.latestData)
                                 .currentVersionData]]
    /\ UNCHANGED <<noteVars, vaultVars, asyncVars>>

\* an entry of the list is selected
ModalSelect ==
    /\ modal.pc = "open"
    /\ \E i \in 1..Len(modal.filepaths) :
          modal' = onChange(modal, modal.filepaths[i])
    /\ UNCHANGED <<noteVars, vaultVars, asyncVars>>

ModalClose ==
    /\ modal.pc \in {"empty", "open"}
    /\ modal' = NoModal
    /\ UNCHANGED <<noteVars, vaultVars, asyncVars>>

\* the note is edited and saved in Obsidian, with the modal open or not
ModalEditFile ==
    /\ \E d \in AsyncTexts \ {fileData} : Notify(d, now, FALSE)
    /\ UNCHANGED forced

\* the note is replaced from outside by a copy that keeps the mtime of the
\* time the note was created
ModalExternalModify ==
    /\ now > 0
    /\ \E d \in AsyncTexts \ {fileData} : Notify(d, 0, FALSE)
    /\ UNCHANGED forced

InitModal ==
    /\ now = 0
    /\ fileData = <<>>
    /\ fileMtime = 0
    /\ zipFile = "null"
    /\ zip = <<>>
    /\ zipMtime = 0
    /\ settings \in ModalSettingsChoices
    /\ outcome = "None"
    /\ lastForce = FALSE
    /\ saved = <<>>
    /\ monotone = TRUE
    /\ forced = 0
    /\ everStored = <<>>
    /\ vault = {}
    /\ listSettings = [extensionWhitelist |-> <<>>, substringBlacklist |-> <<>>]
    /\ events = {}
    /\ handlers = NoHandlers
    /\ noteDeleted = FALSE
    /\ zipValid = TRUE
    /\ modal = NoModal
    /\ tab = DefaultTab
    /\ purge = NoPurge
    /\ codec = NoCodec

NextModal ==
    \/ ModalEditFile \/ ModalExternalModify \/ SaveEditHistory \/ Tick
    \/ ModalOpen \/ ModalReadLatest \/ ModalLoadZip \/ ModalSelect \/ ModalClose

SpecModal == InitModal /\ [][NextModal]_vars

(* ------------- select.onChange as an async callback -------------------- *)
\* the dropdown changes to an entry: the callback reads select.getValue(),
\* starts from latestData and runs to the first await zip.file().async()
SelectStart ==
    /\ modal.pc = "open"
    /\ \E i \in 1..Len(modal.filepaths), h \in Selects :
          /\ modal.selects[h].pc = "idle"
          /\ modal' = [modal EXCEPT
                 !.selectedEdit = modal.filepaths[i],
                 !.selects[h] = [pc |-> "await",
                                 selectedEdit |-> modal.filepaths[i],
                                 rest |-> modal.filepaths,
                                 data |-> modal.latestData,
                                 currentData |-> modal.latestData,
                                 found |-> FALSE]]
    /\ UNCHANGED <<noteVars, vaultVars, asyncVars>>

\* the entry awaited by an invocation is read: one turn of the loop, up to
\* the next await or, after the loop, to the assignment of currentVersionData
\* and of the diff displayed
SelectStep(h) ==
    /\ modal.pc = "open"
    /\ modal.selects[h].pc = "await"
    /\ LET s == modal.selects[h]
           filepath == Head(s.rest)
           diff == ZipRead(modal.zip, filepath)
           data_ == IF getEditIsDiff(filepath)
                    THEN patch_apply(patch_fromText(diff), s.data)
                    ELSE diff
       IN  IF s.found
           THEN modal' = [modal EXCEPT !.currentVersionData = s.currentData,
                                       !.data = data_,
                                       !.selects[h] = IdleSelect]
           ELSE IF Tail(s.rest) = <<>>
           THEN modal' = [modal EXCEPT !.currentVersionData = data_,
                                       !.data = <<>>,
                                       !.selects[h] = IdleSelect]
           ELSE modal' = [modal EXCEPT
                    !.selects[h] = [s EXCEPT !.rest = Tail(s.rest),
                                             !.data = data_,
                                             !.currentData = data_,
                                             !.found = (s.selectedEdit = filepath)]]
    /\ UNCHANGED <<noteVars, vaultVars, asyncVars>>

NextModalAsync ==
    \/ ModalEditFile \/ ModalExternalModify \/ SaveEditHistory \/ Tick
    \/ ModalOpen \/ ModalReadLatest \/ ModalLoadZip \/ ModalClose
    \/ SelectStart
    \/ \E h \in Selects : SelectStep(h)

SpecModalAsync == InitModal /\ [][NextModalAsync]_vars

(* ------------------------------ settings tab --------------------------- *)
\* the texts typed in a field of the settings tab
TypedChoices ==
    { <<>>, <<"0">>, <<" ", "0">>, <<"0", "0">>, <<"0", ".", "5">>, <<"2">>,
      <<"1", "x">>, <<"x">>, <<"-", "1">> }

\* saveSettings after the onChange of a field: the settings are parsed again
saveSettings(typed) == [typed |-> typed, parsed |-> parseSettings(typed)]

TypeMinSecondsBetweenEdits ==
    /\ \E value \in TypedChoices :
          tab' = saveSettings([tab.typed EXCEPT !.minSecondsBetweenEdits = value])
    /\ UNCHANGED <<noteVars, vault, listSettings, events, purge, codec, asyncVars, modal>>

TypeMaxEdits ==
    /\ \E value \in TypedChoices :
          tab' = saveSettings([tab.typed EXCEPT !.maxEdits = value])
    /\ UNCHANGED <<noteVars, vault, listSettings, events, purge, codec, asyncVars, modal>>

TypeMaxEditAge ==
    /\ \E value \in TypedChoices :
          tab' = saveSettings([tab.typed EXCEPT !.maxEditAge = value])
    /\ UNCHANGED <<noteVars, vault, listSettings, events, purge, codec, asyncVars, modal>>

TypeMaxHistoryFileSizeKB ==
    /\ \E value \in TypedChoices :
          tab' = saveSettings([tab.typed EXCEPT !.maxHistoryFileSizeKB = value])
    /\ UNCHANGED <<noteVars, vault, listSettings, events, purge, codec, asyncVars, modal>>

InitSettings ==
    /\ now = 0
    /\ fileData = <<>>
    /\ fileMtime = 0
    /\ zipFile = "null"
    /\ zip = <<>>
    /\ zipMtime = 0
    /\ settings \in {x \in SettingsChoices :
                        /\ x.minSecondsBetweenEdits = 1 /\ x.maxEdits = 0
                        /\ x.maxEditAge = 0 /\ x.maxHistoryFileSizeKB = 0}
    /\ outcome = "None"
    /\ lastForce = FALSE
    /\ saved = <<>>
    /\ monotone = TRUE
    /\ forced = 0
    /\ everStored = <<>>
    /\ vault = {}
    /\ listSettings = [extensionWhitelist |-> <<>>, substringBlacklist |-> <<>>]
    /\ events = {}
    /\ handlers = NoHandlers
    /\ noteDeleted = FALSE
    /\ zipValid = TRUE
    /\ modal = NoModal
    /\ tab = DefaultTab
    /\ purge = NoPurge
    /\ codec = NoCodec

NextSettings ==
    \/ TypeMinSecondsBetweenEdits \/ TypeMaxEdits \/ TypeMaxEditAge
    \/ TypeMaxHistoryFileSizeKB

SpecSettings == InitSettings /\ [][NextSettings]_vars

(* ------------------------ the purge loop by itself --------------------- *)
\* archives given to the purge loop: full entries for some of the seconds
\* 0, 1 and 2, each holding the line 1
PurgeArchives ==
    { [i \in 1..Len(names) |-> [name |-> names[i], data |-> <<1>>]] :
        names \in { <<>>,
                    <<buildEditFilename(0, FALSE)>>,
                    <<buildEditFilename(1000, FALSE)>>,
                    <<buildEditFilename(0, FALSE), buildEditFilename(1000, FALSE)>>,
                    <<buildEditFilename(1000, FALSE), buildEditFilename(2000, FALSE)>>,
                    <<buildEditFilename(0, FALSE), buildEditFilename(1000, FALSE),
                      buildEditFilename(2000, FALSE)>> } }

\* zipData.byteLength: sizes around one kilobyte
PurgeSizes == {624, 1023, 1024, 1025, 1424, 1425}

\* the purge loop is run on the entries sorted most recent first
RunPurgeLoop ==
    /\ ~purge.done
    /\ purge' = [purge EXCEPT
                   !.done = TRUE,
                   !.filepaths = PurgeLoop(sortEdits(ZipNames(purge.files)), purge.files,
                                           purge.zipFileSize, purge.todayUTC).filepaths]
    /\ UNCHANGED <<noteVars, vault, listSettings, events, tab, codec, asyncVars, modal>>

InitPurge ==
    /\ now = 0
    /\ fileData = <<>>
    /\ fileMtime = 0
    /\ zipFile = "null"
    /\ zip = <<>>
    /\ zipMtime = 0
    /\ settings \in SettingsChoices
    /\ outcome = "None"
    /\ lastForce = FALSE
    /\ saved = <<>>
    /\ monotone = TRUE
    /\ forced = 0
    /\ everStored = <<>>
    /\ vault = {}
    /\ listSettings = [extensionWhitelist |-> <<>>, substringBlacklist |-> <<>>]
    /\ events = {}
    /\ handlers = NoHandlers
    /\ noteDeleted = FALSE
    /\ zipValid = TRUE
    /\ modal = NoModal
    /\ tab = DefaultTab
    /\ purge \in [files : PurgeArchives, zipFileSize : PurgeSizes, todayUTC : Times,
                  done : {FALSE}, filepaths : {<<>>}]
    /\ codec = NoCodec

NextPurge == RunPurgeLoop

SpecPurge == InitPurge /\ [][NextPurge]_vars

(* -------------------- the codec and sortEdits by themselves ------------ *)
\* file.stat.mtime in milliseconds: around the seconds at which the name
\* gets one more base-36 digit (36, 1296, 46656, 1679616 s)
CodecTimes ==
    {0, 1, 999, 1000, 1999, 9000, 10000, 35000, 35999, 36000, 36001, 1295999,
     1296000, 46655999, 46656000, 46656999, 1679615999, 1679616000, 2000000000}

\* names of one, two and three digits, with and without the marker
CodecNames ==
    { buildEditFilename(0, TRUE), buildEditFilename(35000, FALSE),
      buildEditFilename(36000, TRUE), buildEditFilename(36000, FALSE),
      buildEditFilename(1295000, TRUE), buildEditFilename(1296000, FALSE) }

MaxNames == 3

CodecLists == UNION {[1..n -> CodecNames] : n \in 0..MaxNames}

\* a name is built for a modification time and decoded again
EncodeDecode ==
    /\ \E mtime \in CodecTimes, isDiff \in BOOLEAN :
          LET editFilename == buildEditFilename(mtime, isDiff)
          IN  codec' = [NoCodec EXCEPT !.op = "codec",
                                       !.mtime = mtime,
                                       !.isDiff = isDiff,
                                       !.editFilename = editFilename,
                                       !.epoch = getEditEpoch(editFilename),
                                       !.decodedIsDiff = getEditIsDiff(editFilename)]
    /\ UNCHANGED <<noteVars, vault, listSettings, events, tab, purge, asyncVars, modal>>

\* a list of names is sorted
SortEdits ==
    /\ \E filenames \in CodecLists :
          codec' = [NoCodec EXCEPT !.op = "sort",
                                   !.filenames = filenames,
                                   !.sorted = sortEdits(filenames)]
    /\ UNCHANGED <<noteVars, vault, listSettings, events, tab, purge, asyncVars, modal>>

InitCodec ==
    /\ now = 0
    /\ fileData = <<>>
    /\ fileMtime = 0
    /\ zipFile = "null"
    /\ zip = <<>>
    /\ zipMtime = 0
    /\ settings = [minSecondsBetweenEdits |-> 1, maxEdits |-> 0, maxEditAge |-> 0,
                   maxHistoryFileSizeKB |-> 0]
    /\ outcome = "None"
    /\ lastForce = FALSE
    /\ saved = <<>>
    /\ monotone = TRUE
    /\ forced = 0
    /\ everStored = <<>>
    /\ vault = {}
    /\ listSettings = [extensionWhitelist |-> <<>>, substringBlacklist |-> <<>>]
    /\ events = {}
    /\ handlers = NoHandlers
    /\ noteDeleted = FALSE
    /\ zipValid = TRUE
    /\ modal = NoModal
    /\ tab = DefaultTab
    /\ purge = NoPurge
    /\ codec = NoCodec

NextCodec == EncodeDecode \/ SortEdits

SpecCodec == InitCodec /\ [][NextCodec]_vars

(* ------------------------- renderDiffsTimeline ------------------------- *)
\* a text of the timeline is a sequence of lines, each with its line break
\* (1, 2) but for the last, which can lack it (3 is the line 1 and 4 the
\* line 2 without a line break)
EndsLine(l) == l \in Lines

LineOf(l) == IF EndsLine(l) THEN l ELSE l - Cardinality(Lines)

TimelineTexts ==
    Texts \cup {Append(Front(t), Last(t) + Cardinality(Lines)) : t \in Texts \ {<<>>}}

\* the line "" that split gives after the last line break, and for ""
EmptyLine == 0

\* data.split("\n")
Split(text) ==
    LET lines == [i \in 1..Len(text) |-> LineOf(text[i])]
    IN  IF text = <<>> \/ EndsLine(Last(text)) THEN Append(lines, EmptyLine) ELSE lines

\* the date and time of an entry in the locale: one string per second
getEditLocalDateStr(editFilename) == getEditEpoch(editFilename) \div 1000

RECURSIVE LcsLen(_, _)
LcsLen(a, b) ==
    IF a = <<>> \/ b = <<>> THEN 0
    ELSE IF Head(a) = Head(b) THEN 1 + LcsLen(Tail(a), Tail(b))
    ELSE LET x == LcsLen(Tail(a), b)
             y == LcsLen(a, Tail(b))
         IN  IF x >= y THEN x ELSE y

\* diff_lineMode(text1, text2): a shortest edit script over whole lines,
\* deletions before insertions, here with one line for each diff
RECURSIVE diff_lineMode(_, _)
diff_lineMode(text1, text2) ==
    IF text1 = <<>> THEN [i \in 1..Len(text2) |-> [op |-> "Insert", diffData |-> text2[i]]]
    ELSE IF text2 = <<>>
    THEN [i \in 1..Len(text1) |-> [op |-> "Delete", diffData |-> text1[i]]]
    ELSE IF Head(text1) = Head(text2)
    THEN <<[op |-> "Equal", diffData |-> Head(text1)]>>
             \o diff_lineMode(Tail(text1), Tail(text2))
    ELSE IF LcsLen(Tail(text1), text2) >= LcsLen(text1, Tail(text2))
    THEN <<[op |-> "Delete", diffData |-> Head(text1)]>> \o diff_lineMode(Tail(text1), text2)
    ELSE <<[op |-> "Insert", diffData |-> Head(text2)]>> \o diff_lineMode(text1, Tail(text2))

\* array.splice(line, 1) and array.splice(line, 0, -1), line counted from 0
SpliceOut(array, line) ==
    IF line < Len(array)
    THEN SubSeq(array, 1, line) \o SubSeq(array, line + 2, Len(array))
    ELSE array

SpliceIn(array, line) ==
    IF line < Len(array)
    THEN SubSeq(array, 1, line) \o <<-1>> \o SubSeq(array, line + 1, Len(array))
    ELSE Append(array, -1)

\* the loops over the diffs and over the lines of each diff: a diff counts
\* for as many lines as it has line breaks; both loops are left when
\* remainingAnnots is zero
RECURSIVE AnnotateDiffs(_, _, _)
AnnotateDiffs(diffs, line, t) ==
    IF diffs = <<>> THEN t
    ELSE LET op == Head(diffs).op
             numLines == IF EndsLine(Head(diffs).diffData) THEN 1 ELSE 0
             refLine == IF line < Len(t.lineToRefLine) THEN t.lineToRefLine[line + 1] ELSE -2
             stamps == op = "Delete" /\ refLine >= 0 /\ refLine < Len(t.annots)
                           /\ t.annots[refLine + 1] = NoAnnot
             u == IF numLines = 0 THEN t
                  ELSE IF op = "Delete"
                  THEN [t EXCEPT
                          !.lineToRefLine = SpliceOut(t.lineToRefLine, line),
                          !.annots = IF stamps
                                     THEN [t.annots EXCEPT ![refLine + 1] = t.prevFileDateStr]
                                     ELSE t.annots,
                          !.remainingAnnots = IF stamps THEN @ - 1 ELSE @]
                  ELSE IF op = "Insert"
                  THEN [t EXCEPT !.lineToRefLine = SpliceIn(t.lineToRefLine, line)]
                  ELSE t
             next == IF numLines = 1 /\ op # "Delete" THEN line + 1 ELSE line
         IN  IF u.remainingAnnots = 0 THEN u
             ELSE AnnotateDiffs(Tail(diffs), next, u)

\* one turn of the loop over filepaths, after its await
TimelineTurn(t, files, selectedEdit) ==
    LET filepath == Head(t.rest)
        diff == ZipRead(files, filepath)
        data_ == IF getEditIsDiff(filepath)
                 THEN patch_apply(patch_fromText(diff), t.data)
                 ELSE diff
        read == [t EXCEPT !.rest = Tail(t.rest), !.newerData = t.data, !.data = data_,
                          !.pc = IF Tail(t.rest) = <<>> THEN "done" ELSE "await"]
    IN  IF ~t.annotate /\ selectedEdit = filepath
        THEN [read EXCEPT
                !.lines = Split(data_),
                !.annots = [i \in 1..Len(Split(data_)) |-> NoAnnot],
                !.lineToRefLine = [i \in 1..(Len(Split(data_)) + 1) |-> i - 1],
                !.annotate = TRUE,
                !.prevFileDateStr = getEditLocalDateStr(filepath),
                !.remainingAnnots = Len(Split(data_))]
        ELSE IF t.annotate
        THEN [AnnotateDiffs(diff_lineMode(t.data, data_), 0, read)
                EXCEPT !.prevFileDateStr = getEditLocalDateStr(filepath)]
        ELSE read

\* the archive that the saves of a list of contents leave, oldest first, one
\* second apart and with no limit set
RECURSIVE TimelineArchive(_)
TimelineArchive(texts) ==
    IF texts = <<>> THEN <<>>
    ELSE LET files == TimelineArchive(Front(texts))
             newFilename == buildEditFilename((Len(texts) - 1) * 1000, FALSE)
         IN  IF files = <<>> THEN ZipWrite(files, newFilename, Last(texts))
             ELSE ZipWrite(FoldMostRecent(sortEdits(ZipNames(files)), files,
                                          Last(texts), newFilename).files,
                           newFilename, Last(texts))

\* saves in a row of a note
MaxChain == 3

TimelineChains ==
    {c \in UNION {[1..n -> TimelineTexts] : n \in 1..MaxChain} :
        \A i \in 1..(Len(c) - 1) : c[i] # c[i + 1]}

\* the Timeline display is chosen: renderDiffsTimeline runs to its first await
TimelineStart ==
    /\ modal.pc = "open"
    /\ modal.timeline.pc = "idle"
    /\ modal' = [modal EXCEPT
           !.timeline = [NoTimeline EXCEPT !.pc = "await",
                                           !.rest = modal.filepaths,
                                           !.data = modal.latestData,
                                           !.newerData = modal.latestData]]
    /\ UNCHANGED <<noteVars, vaultVars, asyncVars>>

\* the entry awaited is read: one turn of the loop
TimelineStep ==
    /\ modal.pc = "open"
    /\ modal.timeline.pc = "await"
    /\ modal' = [modal EXCEPT
           !.timeline = TimelineTurn(modal.timeline, modal.zip, modal.selectedEdit)]
    /\ UNCHANGED <<noteVars, vaultVars, asyncVars>>

InitTimeline ==
    /\ now = 0
    /\ fileData = <<>>
    /\ fileMtime = 0
    /\ zipFile = "null"
    /\ zip = <<>>
    /\ zipMtime = 0
    /\ settings = [minSecondsBetweenEdits |-> 1, maxEdits |-> 0, maxEditAge |-> 0,
                   maxHistoryFileSizeKB |-> 0]
    /\ outcome = "None"
    /\ lastForce = FALSE
    /\ saved = <<>>
    /\ monotone = TRUE
    /\ forced = 0
    /\ everStored = <<>>
    /\ vault = {}
    /\ listSettings = [extensionWhitelist |-> <<>>, substringBlacklist |-> <<>>]
    /\ events = {}
    /\ handlers = NoHandlers
    /\ noteDeleted = FALSE
    /\ zipValid = TRUE
    /\ \E c \in TimelineChains :
          LET files == TimelineArchive(c)
              filepaths == sortEdits(ZipNames(files))
          IN  \E i \in 1..Len(filepaths) :
                 modal = [NoModal EXCEPT !.pc = "open",
                                         !.latestData = Last(c),
                                         !.zip = files,
                                         !.filepaths = filepaths,
                                         !.selectedEdit = filepaths[i]]
    /\ tab = DefaultTab
    /\ purge = NoPurge
    /\ codec = NoCodec

NextTimeline == TimelineStart \/ TimelineStep

SpecTimeline == InitTimeline /\ [][NextTimeline]_vars

(* ------------------------------ claims --------------------------------- *)
NoRetentionLimit ==
    /\ maxEdits = Infinity
    /\ maxEditAgeMs = Infinity
    /\ maxEditHistoryFileSize = Infinity

\* the names of the archive's entries for an epoch second
NamesAt(files, e) ==
    {files[i].name : i \in {j \in 1..Len(files) : getEditEpoch(files[j].name) = e * 1000}}

DiffNames(files) ==
    {files[i].name : i \in {j \in 1..Len(files) : getEditIsDiff(files[j].name)}}

\* C1: with no retention limit, after edits stored at strictly increasing
\* epoch seconds, every stored content c_i is what the reconstruction walk of
\* the modal rebuilds for the entry of its second, whatever the note holds now.
C1_Materialize ==
    (monotone /\ NoRetentionLimit) =>
        \A e \in DOMAIN saved :
            /\ Cardinality(NamesAt(zip, e)) = 1
            /\ \A name \in NamesAt(zip, e) :
                   SelectEdit(zip, name, fileData).currentVersionData = saved[e]

\* three edits stored, the two older ones folded into diffs, and the note
\* edited since (the edit was skipped)
C1_Witness ==
    /\ monotone /\ NoRetentionLimit
    /\ Cardinality(DOMAIN saved) = 3
    /\ Cardinality(DiffNames(zip)) = 2
    /\ outcome = "SkippedRateLimited"
    /\ saved[0] # saved[1] /\ saved[1] # saved[2]
    /\ fileData # saved[2]

FullNames(files) ==
    {files[i].name : i \in {j \in 1..Len(files) : ~getEditIsDiff(files[j].name)}}

\* the names of the entries with the greatest decoded epoch
NewestNames(files) ==
    {files[i].name : i \in {j \in 1..Len(files) :
        \A k \in 1..Len(files) : getEditEpoch(files[k].name) <= getEditEpoch(files[j].name)}}

\* the name with the '$' marker for the second of an mtime
FullNameOf(mtime) == Append(ToString36(mtime \div 1000), Dollar)

Skipped == {"SkippedManual", "SkippedRateLimited", "SkippedCollision", "SkippedNoChange"}

\* C2 as stated: after a stored edit exactly one entry is full, it is the
\* newest by decoded epoch, and every other entry is a diff.
C2_ExactlyOneFull ==
    outcome = "Stored" =>
        /\ Cardinality(FullNames(zip)) = 1
        /\ FullNames(zip) = NewestNames(zip)

\* C2 amended: after a stored edit the entry for the second of the edit is
\* full and holds the incoming content, so at least one entry is full; it is
\* the only newest entry when the stored edits came at increasing seconds.
C2_AppendedIsFull ==
    outcome = "Stored" =>
        /\ ZipHas(zip, FullNameOf(fileMtime))
        /\ ZipRead(zip, FullNameOf(fileMtime)) = fileData
        /\ monotone => NewestNames(zip) = {FullNameOf(fileMtime)}

\* a stored edit after which two entries are full and one is a diff
C2_Witness ==
    /\ outcome = "Stored"
    /\ monotone
    /\ Cardinality(FullNames(zip)) = 2
    /\ Cardinality(DiffNames(zip)) = 1

\* C3 as stated: in every archive written, an entry with the greatest decoded
\* epoch is stored in full.
C3_NewestIsFull ==
    zip # <<>> => \E name \in NewestNames(zip) : ~getEditIsDiff(name)

\* C4: with a maximum number of edits N the archive never has more than N
\* entries.
C4_RetentionCount ==
    maxEdits # Infinity => Len(zip) <= maxEdits

\* the archive is full (two entries of two allowed) and the entry of second 0
\* is gone
C4_Witness ==
    /\ maxEdits = 2
    /\ outcome = "Stored"
    /\ Len(zip) = 2
    /\ Epochs(zip) = {1, 2}
    /\ zipMtime = 2000

\* C5 as stated: right after any invocation of the handler no entry is older
\* than the maximum age.
C5_RetentionAge ==
    [][(now' = now /\ maxEditAgeMs # Infinity) =>
          \A i \in 1..Len(zip') : now - getEditEpoch(zip'[i].name) <= maxEditAgeMs]_vars

\* C5 amended: right after an invocation that stored (the archive was written
\* at the present time), no entry other than the one appended for the
\* incoming content is older than the maximum age.
C5_RetentionAgeStored ==
    (outcome = "Stored" /\ zipMtime = now /\ maxEditAgeMs # Infinity) =>
        \A i \in 1..Len(zip) :
            zip[i].name # FullNameOf(fileMtime) =>
                now - getEditEpoch(zip[i].name) <= maxEditAgeMs

\* an edit stored at 1.5 s with a maximum age of 1 s: the entry of second 0
\* was purged, the one of second 1 was kept
C5_Witness ==
    /\ outcome = "Stored" /\ zipMtime = now /\ maxEditAgeMs = 1000
    /\ maxEdits = Infinity /\ maxEditHistoryFileSize = Infinity
    /\ now = 2000
    /\ Epochs(zip) = {1, 2}

\* the most recent entry is stored in full and holds this content
NewestHolds(files, data) ==
    /\ files # <<>>
    /\ \A name \in NewestNames(files) : ~getEditIsDiff(name) /\ ZipRead(files, name) = data

\* the invocation that this step makes is stopped by manual saving or by the
\* minimum time between edits
Gated ==
    ~lastForce' /\ (minMsBetweenEdits = Infinity
                    \/ (zipFile # "null" /\ fileMtime' - zipMtime < minMsBetweenEdits))

\* C6 as stated: an invocation with the content of the newest entry, which
\* neither manual saving nor the minimum time between edits stops, ends
\* without storing and leaves the archive as it was, whatever the limits.
C6_NoOp ==
    [][(now' = now /\ NewestHolds(zip, fileData') /\ ~Gated) =>
          (outcome' \in {"SkippedNoChange", "SkippedCollision"} /\ zip' = zip)]_vars

\* C6 amended: an invocation with the content of the newest entry leaves the
\* archive as it was unless the purge loop removes every entry, and then the
\* content is stored again as the only entry; it ends with no change detected
\* when the purge loop leaves an entry and neither manual saving, the minimum
\* time between edits nor a colliding epoch stops it before.
C6_NoOpUnlessPurged ==
    [][(now' = now /\ NewestHolds(zip, fileData')) =>
          LET kept == PurgeLoop(sortEdits(ZipNames(zip)), zip, ByteLength(zip), now).filepaths
              gated == Gated
              collides == \E name \in NewestNames(zip) :
                              getEditEpoch(name) = (fileMtime' \div 1000) * 1000
          IN  /\ gated => (outcome' \in {"SkippedManual", "SkippedRateLimited"} /\ zip' = zip)
              /\ (~gated /\ kept # <<>> /\ collides) =>
                     (outcome' = "SkippedCollision" /\ zip' = zip)
              /\ (~gated /\ kept # <<>> /\ ~collides) =>
                     (outcome' = "SkippedNoChange" /\ zip' = zip)
              /\ (~gated /\ kept = <<>>) =>
                     (outcome' = "Stored"
                      /\ zip' = <<[name |-> FullNameOf(fileMtime'), data |-> fileData']>>)]_vars

\* an edit with the content of the newest of two entries, a second later,
\* ended with no change detected
C6_Witness ==
    /\ outcome = "SkippedNoChange"
    /\ Len(zip) = 2
    /\ NewestHolds(zip, fileData)
    /\ fileMtime = 2000
    /\ ~lastForce

C8_ManualOnly ==
    [][(now' = now /\ ~lastForce' /\ minMsBetweenEdits = Infinity) =>
          /\ outcome' = "SkippedManual"
          /\ zip' = zip /\ zipFile' = zipFile /\ zipMtime' = zipMtime]_vars

\* with manual saving, an archive written by the save command and a later
\* edit with another content that was skipped
C8_Witness ==
    /\ minMsBetweenEdits = Infinity
    /\ outcome = "SkippedManual" /\ ~lastForce
    /\ zipFile = "file"
    /\ ~NewestHolds(zip, fileData)
    /\ fileMtime > zipMtime

\* C9 as stated: with "Minimum seconds between edits" set to 0 a non-forced
\* edit is not skipped for the time between edits: it is stored unless its
\* content or its second is that of the newest entry.
C9_ZeroDisablesInterval ==
    (settings.minSecondsBetweenEdits = 0 /\ ~lastForce /\ outcome # "None") =>
        outcome \in {"Stored", "SkippedNoChange", "SkippedCollision"}

\* C10: a forced invocation is never skipped for manual saving or the minimum
\* time between edits: it goes on to the purge loop, the fold and the append.
C10_ForceBypassesRateGate ==
    (lastForce /\ outcome # "None") =>
        outcome \in {"Stored", "SkippedNoChange", "SkippedCollision"}

\* the save command stored with manual saving
C10_Witness ==
    /\ lastForce /\ outcome = "Stored"
    /\ minMsBetweenEdits = Infinity

\* C11: a non-forced invocation for a note whose archive has entries, with an
\* mtime less than the minimum time between edits after the epoch of the newest
\* entry, is skipped before the archive is read and leaves the archive as it
\* was (the file, its entries and its mtime).
C11_RateGate ==
    [][(now' = now /\ ~lastForce' /\ zip # <<>>
        /\ \E name \in NewestNames(zip) :
               fileMtime' - getEditEpoch(name) < minMsBetweenEdits) =>
          /\ outcome' \in {"SkippedRateLimited", "SkippedManual"}
          /\ zip' = zip /\ zipFile' = zipFile /\ zipMtime' = zipMtime]_vars

\* an edit with another content half a second after the archive was written
\* with its only entry was skipped for the minimum time between edits
C11_Witness ==
    /\ outcome = "SkippedRateLimited" /\ ~lastForce
    /\ minMsBetweenEdits = 1000
    /\ Len(zip) = 1
    /\ zipMtime = 0 /\ fileMtime = 500
    /\ getEditEpoch(zip[1].name) = 0
    /\ zip[1].data # fileData

\* no substring of the blacklist occurs in the lowercased path, and the
\* whitelist is empty or the lowercased name ends with one of its extensions
Listed(path) ==
    /\ \A i \in DOMAIN substringBlacklist :
           ~contains(toLowerCase(path), substringBlacklist[i])
    /\ \/ extensionWhitelist = <<>>
       \/ \E i \in DOMAIN extensionWhitelist :
              endsWith(toLowerCase(FileName(path)), extensionWhitelist[i])

IsArchivePath(path) == endsWith(FileName(path), EDIT_HISTORY_FILE_EXT)

\* C12 as stated: after the rename notification of a note that the tracking
\* policy accepts under its old and its new path and that has an archive (and
\* no file is at the new archive path), the archive is at the archive path of
\* the new path and none is left at the archive path of the old path.
C12_RenameMovesArchive ==
    [][\A e \in events' :
          (/\ e.kind = "rename" /\ e.isFile /\ e.kept
           /\ keepEditHistoryForFile(TFile(e.oldPath))
           /\ getEditHistoryFilepath(e.oldPath) \in vault
           /\ getEditHistoryFilepath(e.path) \notin vault) =>
              /\ getEditHistoryFilepath(e.path) \in vault'
              /\ getEditHistoryFilepath(e.oldPath) \notin vault']_vars

\* C13 as stated: after the delete notification of a file whose archive
\* exists, no file is at its archive path.
C13_DeleteRemovesArchive ==
    [][\A e \in events' :
          (e.kind = "delete" /\ e.isFile
           /\ getEditHistoryFilepath(e.path) \in vault) =>
              getEditHistoryFilepath(e.path) \notin vault']_vars

\* C13 amended: after the delete notification of a file that the tracking
\* policy accepts and whose archive exists, no file is at its archive path;
\* for a file the policy rejects the archive is left where it is.
C13_DeleteRemovesArchiveOfTracked ==
    [][\A e \in events' :
          (e.kind = "delete" /\ e.isFile
           /\ getEditHistoryFilepath(e.path) \in vault) =>
              (getEditHistoryFilepath(e.path) \notin vault' <=> e.kept)]_vars

\* a tracked note was deleted and its archive with it (the deletion of the
\* archive was notified too), while the archive of another note stays
C13_Witness ==
    /\ \E e \in events : e.kind = "delete" /\ e.kept /\ e.path \in NotePaths
    /\ \E e \in events : e.kind = "delete" /\ IsArchivePath(e.path)
                         /\ e.path \notin vault
    /\ \E p \in vault : IsArchivePath(p)

\* C14 as stated: keepEditHistoryForFile accepts a file iff no substring of
\* the blacklist occurs in its lowercased path and the whitelist is empty or
\* its lowercased name ends with a listed extension.
C14_ShouldTrack ==
    \A e \in events : e.isFile => (e.kept <=> Listed(e.path))

\* C14 amended: keepEditHistoryForFile accepts a file iff its name does not
\* end with the extension of the edit history files, no substring of the
\* blacklist occurs in its lowercased path and the whitelist is empty or its
\* lowercased name ends with a listed extension; it rejects every folder.
C14_ShouldTrackUnlessArchive ==
    \A e \in events :
        e.kept <=> (e.isFile /\ ~IsArchivePath(e.path) /\ Listed(e.path))

\* a file with an upper case name was accepted for an extension typed in upper
\* case with a blank before it
C14_Witness ==
    /\ listSettings.extensionWhitelist = <<" ", ".", "M", "D", ",", ".", "t", "x", "t">>
    /\ \E e \in events : e.kept /\ e.path # toLowerCase(e.path)

\* C15: a notification for a file whose name ends with the extension of the
\* edit history files is rejected by keepEditHistoryForFile whatever the
\* lists; a modify notification for it leaves the files of the vault as they
\* are, and no archive of an archive is ever in the vault.
C15_ArchivesRejected ==
    [][/\ \A e \in events' : IsArchivePath(e.path) => ~e.kept
       /\ (\E e \in events' : e.kind = "modify" /\ IsArchivePath(e.path)) => vault' = vault
       /\ \A p \in vault' :
              ~endsWith(p, EDIT_HISTORY_FILE_EXT \o EDIT_HISTORY_FILE_EXT)]_vars

\* with the whitelist empty, the save command was used on an archive file of
\* the vault and was rejected
C15_Witness ==
    /\ extensionWhitelist = <<>> /\ substringBlacklist = <<>>
    /\ \E e \in events : /\ e.kind = "modify" /\ IsArchivePath(e.path) /\ ~e.kept
                         /\ e.path \in vault

\* only the maximum number of edits is set
OnlyMaxEdits ==
    /\ maxEdits # Infinity
    /\ maxEditAgeMs = Infinity
    /\ maxEditHistoryFileSize = Infinity

\* the n greatest elements of a set of numbers
MostRecent(S, n) == {e \in S : Cardinality({x \in S : x > e}) < n}

PairwiseDistinct(f) == \A a, b \in DOMAIN f : a # b => f[a] # f[b]

\* more than maxEdits edits of pairwise distinct content were stored, at
\* increasing seconds
MoreThanMaxEditsStored ==
    /\ monotone /\ OnlyMaxEdits
    /\ Cardinality(DOMAIN everStored) > maxEdits
    /\ PairwiseDistinct(everStored)

\* C16 as stated: with N the maximum number of edits and more than N edits of
\* pairwise distinct content stored at increasing seconds, the archive holds
\* exactly the N most recent seconds, its newest entry is full and all the
\* others are diffs.
C16_KeepsMostRecent ==
    MoreThanMaxEditsStored =>
        /\ Len(zip) = maxEdits
        /\ Epochs(zip) = MostRecent(DOMAIN everStored, maxEdits)
        /\ Cardinality(NewestNames(zip)) = 1
        /\ FullNames(zip) = NewestNames(zip)

\* C16 amended: the archive holds exactly the N most recent seconds, its
\* newest entry is full and holds the last content, every entry rebuilds the
\* content stored for its second, and an older entry is a diff exactly when
\* the patch from the next content to its own is shorter than its content.
C16_KeepsMostRecentFolded ==
    MoreThanMaxEditsStored =>
        LET last == CHOOSE e \in DOMAIN everStored : \A x \in DOMAIN everStored : x <= e
            Next_(e) == CHOOSE x \in Epochs(zip) :
                            x > e /\ \A y \in Epochs(zip) : y > e => x <= y
        IN  /\ Len(zip) = maxEdits
            /\ Epochs(zip) = MostRecent(DOMAIN everStored, maxEdits)
            /\ NewestNames(zip) = {FullNameOf(last * 1000)}
            /\ ZipRead(zip, FullNameOf(last * 1000)) = everStored[last]
            /\ \A i \in 1..Len(zip) :
                  LET e == getEditEpoch(zip[i].name) \div 1000
                  IN  /\ SelectEdit(zip, zip[i].name, fileData).currentVersionData
                             = everStored[e]
                      /\ e # last =>
                            (getEditIsDiff(zip[i].name) <=>
                                 PatchTextLen(patch_toText(
                                     patch_make(everStored[Next_(e)], everStored[e])))
                                   < TextLen(everStored[e]))

\* three edits stored at the seconds 0, 1 and 2 with at most two edits kept:
\* the archive holds the seconds 1 and 2, the older one as a diff
C16_Witness ==
    /\ MoreThanMaxEditsStored
    /\ maxEdits = 2
    /\ DOMAIN everStored = {0, 1, 2}
    /\ Epochs(zip) = {1, 2}
    /\ Cardinality(DiffNames(zip)) = 1

\* C17: the text rebuilt from an archive does not depend on the note: for
\* every entry of the archive, the version the modal shows is the same for any
\* two contents of the note.
C17_IndependentOfNote ==
    \A i \in 1..Len(zip) : \A d1, d2 \in Texts :
        SelectEdit(zip, zip[i].name, d1).currentVersionData
            = SelectEdit(zip, zip[i].name, d2).currentVersionData

\* an invocation has read the archive, or found none, and has not written yet
BetweenReadAndWrite(h) == handlers[h].pc = "write"

\* C18: at most one invocation of the handler for the note is between its
\* read of the archive and its write of the archive at any time.
C18_OneInFlight ==
    Cardinality({h \in Handlers : BetweenReadAndWrite(h)}) <= 1

\* the archive as the vault holds it
archive == <<zipFile, zip, zipMtime, zipValid>>

\* in this step the handler is called, an invocation ends, the handler ends
\* with the given error
Called == fileData' # fileData \/ forced' # forced

Ended(h) == handlers[h].pc # "idle" /\ handlers'[h].pc = "idle"

FailsWith(error) == outcome' = error /\ (Called \/ \E h \in Handlers : Ended(h))

\* C20 as stated: when the handler fails because the archive path is a
\* folder, because the archive cannot be read or parsed, or because the write
\* fails, the archive is left exactly as it was.
C20_FailureLeavesArchive ==
    [][(\E error \in {"NotAFile", "ReadError", "CorruptArchive", "WriteError"} :
            FailsWith(error))
       => UNCHANGED archive]_vars

\* C20 amended: a folder at the archive path, a read that fails and a file
\* that is no zip each end the handler before any write, with the archive
\* exactly as it was; the handler never deletes the archive; after a write
\* that fails the archive is as it was or is a file written in part.
C20_FailureBeforeWriteLeavesArchive ==
    [][/\ (\E error \in {"NotAFile", "ReadError", "CorruptArchive"} : FailsWith(error))
            => UNCHANGED archive
       /\ (zipFile = "folder" /\ Called)
            => /\ outcome' \in {"NotAFile", "SkippedManual"}
               /\ handlers' = handlers
       /\ \A h \in Handlers :
            (handlers[h].pc = "readBinary" /\ handlers'[h] # handlers[h] /\ ~zipValid)
                => /\ Ended(h)
                   /\ outcome' \in {"ReadError", "CorruptArchive"}
       /\ zipFile # "null" => zipFile' # "null"
       /\ FailsWith("WriteError")
            => \/ UNCHANGED archive
               \/ zipFile' = "file" /\ ~zipValid'
      ]_vars

\* the note was edited, the handler found a file that is no zip at the
\* archive path and ended with CorruptArchive; the file is as it was
C20_Witness ==
    /\ outcome = "CorruptArchive"
    /\ zipFile = "file" /\ ~zipValid /\ zipMtime = 0
    /\ fileData # <<>>
    /\ \A h \in Handlers : handlers[h].pc = "idle"

\* the archive was replaced since the modal loaded it
ReplacedSinceOpen == modal.pc = "open" /\ zip # modal.zip

\* C19: the modal works on the archive as it was when loaded: an edit stored
\* while the modal is open changes neither the list of entries nor the
\* version rebuilt for the selected entry.
C19_PrivateSnapshot ==
    (modal.pc = "open") =>
        /\ Len(modal.filepaths) = Len(modal.atOpen)
        /\ \A i \in 1..Len(modal.filepaths) :
              /\ modal.filepaths[i] \in {modal.zip[j].name : j \in 1..Len(modal.zip)}
              /\ modal.selectedEdit = modal.filepaths[i]
                    => modal.currentVersionData = modal.atOpen[i]

\* an entry is selected after an edit was stored with the modal open, and the
\* entry is no longer in the archive under that name
C19_Witness ==
    /\ ReplacedSinceOpen
    /\ outcome = "Stored"
    /\ modal.selectedEdit # <<>>
    /\ \A j \in 1..Len(zip) : zip[j].name # modal.selectedEdit

\* C21: with no archive, an edit that is forced, or not forced with a finite
\* minimum time between edits, creates the archive with exactly one entry:
\* full, named after the second of the edit, holding the new content.
C21_FirstEditCreatesArchive ==
    [][(/\ now' = now
        /\ zipFile = "null"
        /\ (lastForce' \/ minMsBetweenEdits # Infinity))
       => /\ outcome' = "Stored"
          /\ zipFile' = "file"
          /\ zip' = <<[name |-> FullNameOf(fileMtime'), data |-> fileData']>>
          /\ zipMtime' = now]_vars

\* the first edit is made half a second after the start, not forced, with a
\* minimum of one second between edits: the archive holds that edit alone
C21_Witness ==
    /\ settings.minSecondsBetweenEdits = 1
    /\ ~lastForce /\ outcome = "Stored"
    /\ now = 500 /\ fileMtime = 500 /\ zipMtime = 500
    /\ fileData # <<>>
    /\ zip = <<[name |-> FullNameOf(500), data |-> fileData]>>

\* the fields of the settings tab that hold a limit, with the parsed limit
\* of each
LimitOf ==
    [minSecondsBetweenEdits |-> tab.parsed.minMsBetweenEdits,
     maxEdits |-> tab.parsed.maxEdits,
     maxEditAge |-> tab.parsed.maxEditAgeMs,
     maxHistoryFileSizeKB |-> tab.parsed.maxEditHistoryFileSize]

\* the field holds a number that is zero
TypedZero(value) == ~parseInt(value).nan /\ parseInt(value).value = 0

\* C22: for each of the four limits a typed value of 0 is parsed to Infinity,
\* no parsed limit is zero, and after every change in the settings tab each
\* parsed limit is the one of the value now typed.
C22_ZeroIsNoLimit ==
    /\ \A f \in DOMAIN LimitOf :
          /\ TypedZero(tab.typed[f]) => LimitOf[f] = Infinity
          /\ LimitOf[f] # 0
    /\ LimitOf.minSecondsBetweenEdits
          = ParseOrInfinity(tab.typed.minSecondsBetweenEdits, 1000)
    /\ LimitOf.maxEdits = ParseOrInfinity(tab.typed.maxEdits, 1)
    /\ LimitOf.maxEditAge = ParseOrInfinity(tab.typed.maxEditAge, 1000)
    /\ LimitOf.maxHistoryFileSizeKB
          = ParseOrInfinity(tab.typed.maxHistoryFileSizeKB, 1024)

\* every field was changed, each to a way of typing zero, while a limit had
\* been set before in none: the four limits are Infinity
C22_Witness ==
    /\ tab.typed.minSecondsBetweenEdits = <<"0">>
    /\ tab.typed.maxEdits = <<"0", "0">>
    /\ tab.typed.maxEditAge = <<" ", "0">>
    /\ tab.typed.maxHistoryFileSizeKB = <<"0", ".", "5">>
    /\ \A f \in DOMAIN LimitOf : LimitOf[f] = Infinity

IsPrefix(p, q) == Len(p) <= Len(q) /\ SubSeq(q, 1, Len(p)) = p

\* the entries of the archive, most recent first, and those the purge loop
\* of a handler called now keeps
EditsBefore == sortEdits(ZipNames(zip))

EditsKept == PurgeLoop(EditsBefore, zip, ByteLength(zip), now).filepaths

EditsPurged == {EditsBefore[i] : i \in (Len(EditsKept) + 1)..Len(EditsBefore)}

\* the compressed sizes of a list of entries of the archive, added
RECURSIVE CompressedSizes(_)
CompressedSizes(names) ==
    IF names = <<>> THEN 0
    ELSE getEditCompressedSize(zip, Head(names)) + CompressedSizes(Tail(names))

\* a step of the handler that stores in an archive that exists
Stores == now' = now /\ outcome' = "Stored" /\ zipFile = "file"

\* what C23 says of the list and of the archive written, less the order of
\* the epochs: the entries kept are the first of the list, the loop stops at
\* an oldest entry over no count or age limit and, when size is the only
\* limit, with the size less the entries purged not over it; the entries
\* purged are not in the archive written and the entries kept are, the most
\* recent one as it was or as a diff
PurgesSuffix ==
    /\ IsPrefix(EditsKept, EditsBefore)
    /\ (maxEdits = Infinity /\ maxEditAgeMs = Infinity) =>
          LET purged == SubSeq(EditsBefore, Len(EditsKept) + 1, Len(EditsBefore))
          IN  /\ purged # <<>> =>
                    ByteLength(zip) - CompressedSizes(Tail(purged))
                        > maxEditHistoryFileSize
              /\ EditsKept # <<>> =>
                    ByteLength(zip) - CompressedSizes(purged)
                        <= maxEditHistoryFileSize
    /\ EditsKept # <<>> =>
          /\ ~(Len(EditsKept) >= maxEdits)
          /\ ~(now - getEditEpoch(Last(EditsKept)) > maxEditAgeMs)
    /\ \A e \in EditsPurged : ZipHas(zip', e) => e = FullNameOf(fileMtime')
    /\ \A i \in 2..Len(EditsKept) : ZipHas(zip', EditsKept[i])
    /\ EditsKept # <<>> =>
          \/ ZipHas(zip', EditsKept[1])
          \/ ZipHas(zip', buildEditFilename(getEditEpoch(EditsKept[1]), TRUE))

PurgeGiven == sortEdits(ZipNames(purge.files))

\* C24: an entry whose age equals the maximum age is not purged for its age,
\* a size equal to the maximum size purges nothing, and the count is compared
\* with >=: with a maximum of N edits, N - 1 are kept of N or more.
C24_TiesKept ==
    purge.done =>
        /\ (maxEdits = Infinity /\ purge.zipFileSize <= maxEditHistoryFileSize) =>
              \A i \in 1..Len(PurgeGiven) :
                  (purge.todayUTC - getEditEpoch(PurgeGiven[i]) <= maxEditAgeMs)
                      <=> (i <= Len(purge.filepaths))
        /\ (maxEdits = Infinity /\ maxEditAgeMs = Infinity) =>
              ((purge.zipFileSize <= maxEditHistoryFileSize \/ PurgeGiven = <<>>)
                  <=> purge.filepaths = PurgeGiven)
        /\ (maxEditAgeMs = Infinity /\ maxEditHistoryFileSize = Infinity
            /\ maxEdits # Infinity) =>
              Len(purge.filepaths)
                  = (IF Len(PurgeGiven) >= maxEdits THEN maxEdits - 1
                     ELSE Len(PurgeGiven))
        /\ IsPrefix(purge.filepaths, PurgeGiven)

\* the purge loop was run on three entries with a size equal to the maximum
\* size of 1024 bytes, the only limit: all three are kept
C24_Witness ==
    /\ purge.done
    /\ maxEditHistoryFileSize = 1024 /\ maxEdits = Infinity /\ maxEditAgeMs = Infinity
    /\ purge.zipFileSize = maxEditHistoryFileSize
    /\ Len(purge.files) = 3
    /\ purge.filepaths = PurgeGiven

\* the patch text that turns the incoming data into the data of an entry
PatchOf(incoming, prevFileData) == patch_toText(patch_make(incoming, prevFileData))

\* C25: when the handler stores and the most recent entry left by the purge
\* loop is full, that entry is replaced by an entry without the marker at the
\* same epoch holding the patch text iff the patch text is strictly shorter
\* than the entry's data; else the entry is kept with its name and data.
\* Either way the modal rebuilds the same content for it as before.
C25_FoldsIffShorter ==
    [][(Stores /\ EditsKept # <<>> /\ ~getEditIsDiff(EditsKept[1])) =>
        LET prev == EditsKept[1]
            prevFileData == ZipRead(zip, prev)
            diffName == buildEditFilename(getEditEpoch(prev), TRUE)
            patch == PatchOf(fileData', prevFileData)
            shorter == PatchTextLen(patch) < TextLen(prevFileData)
        IN  /\ shorter =>
                  /\ ~ZipHas(zip', prev)
                  /\ ZipHas(zip', diffName)
                  /\ ZipRead(zip', diffName) = patch
                  /\ SelectEdit(zip', diffName, fileData').currentVersionData
                        = prevFileData
            /\ ~shorter =>
                  /\ ZipHas(zip', prev)
                  /\ ZipRead(zip', prev) = prevFileData
                  /\ ZipHas(zip', diffName) => ZipHas(zip, diffName)
                  /\ SelectEdit(zip', prev, fileData').currentVersionData
                        = prevFileData]_vars

\* edits were stored at the seconds 0, 1 and 2: the entry of second 0 was
\* replaced by a shorter patch text, the entry of second 1 was kept in full
\* when the edit of second 2 was stored because the patch text is longer
C25_Witness ==
    /\ outcome = "Stored" /\ monotone /\ NoRetentionLimit
    /\ DOMAIN saved = {0, 1, 2}
    /\ ZipNames(zip) = <<buildEditFilename(0, TRUE), buildEditFilename(1000, FALSE),
                         buildEditFilename(2000, FALSE)>>
    /\ ZipRead(zip, buildEditFilename(0, TRUE)) = PatchOf(saved[1], saved[0])
    /\ ZipRead(zip, buildEditFilename(1000, FALSE)) = saved[1]
    /\ PatchTextLen(PatchOf(saved[2], saved[1])) >= TextLen(saved[1])
    /\ fileData = saved[2]

\* C26: the decoded epochs of the entries of the archive are pairwise
\* distinct, so that exactly one entry of a non-empty archive is the newest,
\* after any sequence of calls of the handler.
C26_EpochsDistinct ==
    /\ \A i, j \in 1..Len(zip) :
          getEditEpoch(zip[i].name) = getEditEpoch(zip[j].name) => i = j
    /\ zip # <<>> => Cardinality(NewestNames(zip)) = 1

\* C27: once the command "Save current edit in the edit history" has called
\* the handler, the most recent entry of the archive is full and holds the
\* content of the note, whatever was skipped before.
C27_SaveHoldsCurrent ==
    lastForce => NewestHolds(zip, fileData)

\* C28: after the rename notification of a file that the tracking policy
\* accepts under its old or its new path and whose archive is at the archive
\* path of the old path (no file being at the new archive path), the archive
\* is at the archive path of the new path and no longer at the old one.
C28_RenameSkipsOnlyUntracked ==
    [][\A e \in events' :
          (/\ e.kind = "rename" /\ e.isFile
           /\ (e.kept \/ keepEditHistoryForFile(TFile(e.oldPath)))
           /\ getEditHistoryFilepath(e.oldPath) \in vault
           /\ getEditHistoryFilepath(e.path) \notin vault) =>
              /\ getEditHistoryFilepath(e.path) \in vault'
              /\ getEditHistoryFilepath(e.oldPath) \notin vault']_vars

\* the archive files of the vault
ArchivesIn(files) == {p \in files : IsArchivePath(p)}

\* C29: a modify or a delete notification for a note that the tracking
\* policy rejects and whose archive exists leaves the archive where it is:
\* the handler looks up, reads, writes and deletes no archive file, and the
\* archive files of the vault are the same after it.
C29_UntrackedArchiveUntouched ==
    [][\A e \in events' :
          (/\ e.kind \in {"modify", "delete"}
           /\ e.isFile /\ ~IsArchivePath(e.path) /\ ~e.kept
           /\ getEditHistoryFilepath(e.path) \in vault) =>
              /\ e.touched = {}
              /\ getEditHistoryFilepath(e.path) \in vault'
              /\ ArchivesIn(vault') = ArchivesIn(vault)]_vars

\* a note whose archive was created while its path was tracked is now at a
\* path that the blacklist rejects (its folder was moved); it was modified
\* there and its archive is in the vault, touched by nothing
C29_Witness ==
    \E e \in events :
        /\ e.kind = "modify" /\ e.path \in NotePaths /\ ~e.kept
        /\ e.path \in vault
        /\ getEditHistoryFilepath(e.path) \in vault
        /\ e.touched = {}

\* the content of the k-th entry of the modal's list, most recent first,
\* rebuilt from the note's content at the opening: a full entry is its data,
\* a diff is applied to the content rebuilt for the entry before it
RECURSIVE Materialized(_)
Materialized(k) ==
    IF k = 0 THEN modal.latestData
    ELSE LET filepath == modal.filepaths[k]
             payload == ZipRead(modal.zip, filepath)
         IN  IF getEditIsDiff(filepath)
             THEN patch_apply(patch_fromText(payload), Materialized(k - 1))
             ELSE payload

\* the place of the selected entry in the modal's list
SelectedIndex == CHOOSE i \in 1..Len(modal.filepaths) : modal.filepaths[i] = modal.selectedEdit

EntrySelected == modal.pc = "open" /\ modal.selectedEdit # <<>>

\* the diff shown goes from the content of the next older entry, or from the
\* empty file for the oldest entry, to the content of the selected entry
DiffFromOlder ==
    /\ modal.currentVersionData = Materialized(SelectedIndex)
    /\ modal.data = IF SelectedIndex = Len(modal.filepaths) THEN <<>>
                    ELSE Materialized(SelectedIndex + 1)

\* C30 as stated: the diff of a selected entry goes from the content of the
\* entry immediately older to the content of the selected entry, and the
\* older text is the empty string exactly when the selected entry is the
\* oldest of the list.
C30_OlderEmptyIffOldest ==
    EntrySelected =>
        /\ DiffFromOlder
        /\ modal.data = <<>> <=> SelectedIndex = Len(modal.filepaths)

\* C30 amended: the same diff, the empty file is taken for the older text
\* when the selected entry is the oldest of the list; for any other entry the
\* older text is the content of the next older entry, empty or not.
C30_OlderIsNextOrEmpty ==
    EntrySelected => DiffFromOlder

\* the most recent of two entries is selected, and it is shown against the
\* content of the older entry, which is not empty and not the same
C30_Witness ==
    /\ EntrySelected
    /\ Len(modal.filepaths) = 2
    /\ modal.selectedEdit = modal.filepaths[1]
    /\ modal.data # <<>>
    /\ modal.data # modal.currentVersionData
    /\ modal.data = ZipRead(modal.zip, modal.filepaths[2])

\* C33: a call of the handler that stores removes the entries the purge loop
\* evicts, may replace the most recent entry kept by a diff of the same epoch
\* and adds the entry of the incoming edit; every other entry is in the
\* archive written with its name and its data, and nothing else is.
C33_StoreFrame ==
    [][Stores =>
        /\ \A i \in 2..Len(EditsKept) :
              /\ ZipHas(zip', EditsKept[i])
              /\ ZipRead(zip', EditsKept[i]) = ZipRead(zip, EditsKept[i])
        /\ \A j \in 1..Len(zip') :
              \/ zip'[j].name = FullNameOf(fileMtime')
              \/ \E i \in 1..Len(EditsKept) :
                    \/ zip'[j].name = EditsKept[i]
                    \/ /\ i = 1
                       /\ zip'[j].name
                            = buildEditFilename(getEditEpoch(EditsKept[1]), TRUE)]_vars

\* C37: every archive that the handler writes holds at least one entry, the
\* full entry named after the second of the incoming edit with the incoming
\* content among them, also when the purge loop evicted every entry there
\* was; an archive that exists is never empty.
C37_NeverWritesEmpty ==
    [][(now' = now /\ (zip' # zip \/ outcome' = "Stored" \/ zipFile' # zipFile)) =>
        /\ zipFile' = "file"
        /\ zip' # <<>>
        /\ ZipHas(zip', FullNameOf(fileMtime'))
        /\ ZipRead(zip', FullNameOf(fileMtime')) = fileData'
        /\ (zip # <<>> /\ EditsKept = <<>>) => Len(zip') = 1]_vars

\* with at most one edit kept, edits were stored at the seconds 0 and 1: the
\* purge loop evicted the only entry and the archive written holds the entry
\* of second 1 alone
C37_Witness ==
    /\ outcome = "Stored" /\ monotone
    /\ settings.maxEdits = 1
    /\ DOMAIN everStored = {0, 1}
    /\ ZipNames(zip) = <<buildEditFilename(1000, FALSE)>>
    /\ ZipRead(zip, buildEditFilename(1000, FALSE)) = fileData

\* C38: the name built for a modification time of epochMs >= 0 decodes to
\* epochMs truncated to whole seconds, in milliseconds; it is the name of a
\* diff exactly when it was built as one, and the names built for the same
\* time with and without the marker decode to the same epoch.
C38_CodecRoundTrip ==
    codec.op = "codec" =>
        /\ codec.epoch = (codec.mtime \div 1000) * 1000
        /\ codec.decodedIsDiff = codec.isDiff
        /\ getEditEpoch(buildEditFilename(codec.mtime, TRUE))
              = getEditEpoch(buildEditFilename(codec.mtime, FALSE))

\* a full name of three digits and the marker was built for a time that is
\* not a whole second, and decoded to the second
C38_Witness ==
    /\ codec.op = "codec"
    /\ codec.mtime = 46656999
    /\ ~codec.isDiff
    /\ Len(codec.editFilename) = 5
    /\ Last(codec.editFilename) = Dollar
    /\ codec.epoch = 46656000

\* the number of times a name occurs in a list
Occurrences(names, name) == Cardinality({i \in 1..Len(names) : names[i] = name})

\* C39: sortEdits returns the names it is given ordered by decoded epoch,
\* most recent first, for names of any lengths, with or without the marker:
\* no name is followed by one of a greater epoch.
C39_SortedByEpoch ==
    codec.op = "sort" =>
        /\ Len(codec.sorted) = Len(codec.filenames)
        /\ \A name \in CodecNames :
              Occurrences(codec.sorted, name) = Occurrences(codec.filenames, name)
        /\ \A i \in 1..(Len(codec.sorted) - 1) :
              getEditEpoch(codec.sorted[i]) >= getEditEpoch(codec.sorted[i + 1])

\* three names of one, two and three digits were sorted, and the order by
\* epoch put the longest name first and the one-digit name 'z$' last, the
\* reverse of their order as strings
C39_Witness ==
    /\ codec.op = "sort"
    /\ codec.filenames = <<buildEditFilename(35000, FALSE), buildEditFilename(1296000, FALSE),
                           buildEditFilename(36000, TRUE)>>
    /\ codec.sorted = <<buildEditFilename(1296000, FALSE), buildEditFilename(36000, TRUE),
                        buildEditFilename(35000, FALSE)>>
    /\ StringLess(codec.sorted[1], codec.sorted[3])

\* C34: an entry of the archive stays in it, under its epoch, through every
\* write of an invocation of the handler, whatever invocations are in flight,
\* unless a limit is set and the entry is older than every entry that stays.
C34_NoStoredEditLost ==
    [][(zipValid /\ zipValid' /\ zip' # zip) =>
        \A e \in Epochs(zip) \ Epochs(zip') :
            /\ ~NoRetentionLimit
            /\ \A k \in Epochs(zip) \cap Epochs(zip') : e < k]_vars

\* C35: once the note has been deleted and no invocation of the "modify"
\* handler is in flight for it, nothing is at its archive path.
C35_NoArchiveAfterDelete ==
    (noteDeleted /\ \A h \in Handlers : handlers[h].pc = "idle") => zipFile = "null"

\* no invocation of select.onChange is suspended
SelectsFinished == \A h \in Selects : modal.selects[h].pc = "idle"

\* C36: once every invocation of select.onChange has finished, the diff
\* displayed and the text that Copy copies (currentVersionData) are those of
\* the entry selected in the dropdown.
C36_DisplayOfSelected ==
    (EntrySelected /\ SelectsFinished) => DiffFromOlder

\* the target of the timeline: the content of the selected entry, and the
\* number of entries read so far
TargetText == Materialized(SelectedIndex)

EntriesRead == Len(modal.filepaths) - Len(modal.timeline.rest)

\* each line of the target has an annotation
TargetAnnotated ==
    /\ modal.timeline.annotate
    /\ TargetText # <<>>
    /\ \A r \in 1..Len(TargetText) : modal.timeline.annots[r] # NoAnnot

\* C31: once each line of the target has an annotation, renderDiffsTimeline
\* reads no older entry (and so patches and diffs none).
C31_StopsWhenAnnotated ==
    [][(modal.timeline.pc = "await" /\ TargetAnnotated)
          => modal.timeline'.rest = modal.timeline.rest]_vars

\* where the p-th line of the newer text is in the older text, going by the
\* diffs from the newer to the older: 0 when the older text does not have it
RECURSIVE AlignPos(_, _, _, _)
AlignPos(diffs, p, n, o) ==
    IF diffs = <<>> THEN 0
    ELSE IF Head(diffs).op = "Insert" THEN AlignPos(Tail(diffs), p, n, o + 1)
    ELSE IF Head(diffs).op = "Delete"
    THEN IF n + 1 = p THEN 0 ELSE AlignPos(Tail(diffs), p, n + 1, o)
    ELSE IF n + 1 = p THEN o + 1 ELSE AlignPos(Tail(diffs), p, n + 1, o + 1)

\* the stamp of the line at place p of the content of entry j - 1, from the
\* steps to the entries j and older that were read: the date of the version
\* of the first step whose older text does not have the line
RECURSIVE StampFrom(_, _)
StampFrom(p, j) ==
    IF j > EntriesRead THEN NoAnnot
    ELSE LET q == AlignPos(diff_lineMode(Materialized(j - 1), Materialized(j)), p, 0, 0)
         IN  IF q = 0 THEN getEditLocalDateStr(modal.filepaths[j - 1])
             ELSE StampFrom(q, j + 1)

\* C32: each line of the target has the stamp of the first step, from the
\* target to the older entries, in which the line is an insertion, that is
\* the date of the version that introduced it, and no stamp before that step.
C32_StampedWhereInserted ==
    modal.timeline.annotate =>
        \A r \in 1..Len(TargetText) :
            modal.timeline.annots[r] = StampFrom(r, SelectedIndex + 1)

====
